---- MODULE Spec2Model ----
(***************************************************************************)
(* ComponentwiseGenGradientBoostingSurvivalAnalysis                        *)
(* (src/sksurv/ensemble/genboosting.py) as a state machine.                *)
(*                                                                         *)
(* The estimator object is the record `self`: `self.has` is the set of     *)
(* instance attributes that exist (what hasattr answers), the other fields *)
(* hold their values (a default while the attribute does not exist).       *)
(* `params` are the constructor arguments, which set_params may change     *)
(* between calls.  Every method is an operator from (params, self, input)  *)
(* to the object it leaves behind and the exception it raises, if any.     *)
(*                                                                         *)
(* Numbers the collaborators compute (the wrapped regressor's fit, the     *)
(* loss and its gradient, Breslow's estimator) are uninterpreted terms:    *)
(* records that name the function and its arguments.  Two such values are  *)
(* equal exactly when they were computed from the same inputs.             *)
(*                                                                         *)
(* Spec     : the public operations as written.  fit passes eight          *)
(*            positional arguments to _fit at line 433, _fit declares      *)
(*            seven, and the call raises TypeError.                        *)
(* SpecLoop : set_params and fit, with the call of line 433 entering      *)
(*            _fit with the seven arguments its signature declares (X,     *)
(*            event, time, y_pred, sample_weight, random_state,            *)
(*            begin_at_stage): the loop of _fit, one action per boosting   *)
(*            iteration, then lines 433-436.  The queries change nothing   *)
(*            of the estimator; under SpecLoop their operators are         *)
(*            evaluated on the states between calls.                       *)
(* SpecOob  : SpecLoop with subsampling in place of dropout.               *)
(* SpecMetric : one call of a function of src/sksurv/metrics.py on        *)
(*            arguments drawn in the initial state.                        *)
(* SpecLearner : one call of _ComponentwiseBaseLearner.fit on a regressor *)
(*            and arguments drawn in the initial state.                    *)
(* SpecWarm : SpecLoop with warm_start=True throughout and ensembles of   *)
(*            up to MaxWarmEstimators stages.                              *)
(***************************************************************************)
EXTENDS Integers, Sequences, FiniteSets, TLC

VARIABLES params, self, last, pc, frame

vars == <<params, self, last, pc, frame>>

\* ------------------------------------------------------------------ bounds
MaxEstimators == 2
MaxSamples == 2
NFeatures == 1
\* warm-start calls are made while the generator has yielded fewer values
MaxDraws == 2

\* ------------------------------------------------------------ small helpers
Max(a, b) == IF a >= b THEN a ELSE b

RECURSIVE Gcd(_, _)
Gcd(a, b) == IF b = 0 THEN a ELSE Gcd(b, a % b)

\* a positive rational <<numerator, denominator>> in lowest terms
Rat(n, d) == LET g == Gcd(n, d) IN <<n \div g, d \div g>>

RatMul(x, y) == Rat(x[1] * y[1], x[2] * y[2])

RatLess(x, y) == x[1] * y[2] < y[1] * x[2]

One == <<1, 1>>

Zero == <<0, 1>>

\* numpy.resize(a, n): the first n entries of a repeated cyclically
np_resize(a, n) == [k \in 1..n |-> a[((k - 1) % Len(a)) + 1]]

\* ------------------------------------------------------- hyperparameters
LossNames == {"coxph", "squared", "ipcwls"}

\* LOSS_FUNCTIONS[name](): the strategy object held in self._loss
LOSS_FUNCTIONS(name) ==
    CASE name = "coxph" -> "CoxPH"
      [] name = "squared" -> "CensoredSquaredLoss"
      [] name = "ipcwls" -> "IPCWLeastSquaresError"

\* the values the constructor and set_params are given in this model;
\* subsample and dropout_rate are rationals <<num, den>>
ParamValues ==
    [loss          |-> LossNames \cup {"bogus"},
     learning_rate |-> {-1, 1},
     n_estimators  |-> 0..MaxEstimators,
     subsample     |-> {Zero, <<1, 2>>, One},
     warm_start    |-> BOOLEAN,
     dropout_rate  |-> {Zero, <<1, 2>>, One}]

ParamNames == DOMAIN ParamValues

ParamSpace ==
    [loss          : ParamValues.loss,
     learning_rate : ParamValues.learning_rate,
     n_estimators  : ParamValues.n_estimators,
     subsample     : ParamValues.subsample,
     warm_start    : ParamValues.warm_start,
     dropout_rate  : ParamValues.dropout_rate]

\* _parameter_constraints, as _validate_params checks them
ParamsValid(p) ==
    /\ p.loss \in LossNames
    /\ p.learning_rate >= 0
    /\ p.n_estimators >= 1
    /\ RatLess(Zero, p.subsample) /\ ~RatLess(One, p.subsample)
    /\ ~RatLess(p.dropout_rate, Zero) /\ RatLess(p.dropout_rate, One)

\* ------------------------------------------------------------------ data
\* A call's (X, y): n_samples rows of X, n_y entries of y, n_events of them
\* events, NFeatures columns.
DataSets ==
    {[n_samples |-> n, n_y |-> n, n_events |-> 1, n_features |-> NFeatures] :
        n \in {1, MaxSamples}}
    \cup {[n_samples |-> MaxSamples, n_y |-> MaxSamples, n_events |-> 0,
           n_features |-> NFeatures],
          [n_samples |-> MaxSamples, n_y |-> MaxSamples + 1, n_events |-> 1,
           n_features |-> NFeatures]}

NoData == [n_samples |-> 0, n_y |-> 0, n_events |-> 0, n_features |-> 0]

\* X = self._validate_data(X, ensure_min_samples=2)
validate_data(d) == IF d.n_samples < 2 THEN "ValueError_min_samples" ELSE "ok"

\* event, time = check_array_survival(X, y)
check_array_survival(d) ==
    IF d.n_events = 0 THEN "ValueError_all_censored"
    ELSE IF d.n_y # d.n_samples THEN "ValueError_inconsistent_length"
    ELSE "ok"

DataValid(d) == validate_data(d) = "ok" /\ check_array_survival(d) = "ok"

\* -------------------------------------------------------- the estimator
AttrNames ==
    {"estimators_", "train_score_", "oob_improvement_", "oob_scores_",
     "oob_score_", "_rng", "_scale", "_loss", "_baseline_model",
     "n_estimators_", "n_features_in_"}

ZeroScore == [k |-> "zero"]

NanScore == [k |-> "nan"]

Unfitted == [fitted |-> FALSE]

NoModel == [k |-> "absent"]

\* the value a field holds while its attribute does not exist
Default ==
    [estimators_      |-> <<>>,
     train_score_     |-> <<>>,
     oob_improvement_ |-> <<>>,
     oob_scores_      |-> <<>>,
     oob_score_       |-> NanScore,
     _rng             |-> 0,
     _scale           |-> <<>>,
     _loss            |-> "",
     _baseline_model  |-> NoModel,
     n_estimators_    |-> 0,
     n_features_in_   |-> 0]

\* __init__: no fitted attribute exists; self.regr is the regressor passed in
NewEstimator ==
    [has |-> {}, regr |-> Unfitted] @@ Default

hasattr(s, a) == a \in s.has

\* self.<a> = v
setattr(s, a, v) == [s EXCEPT ![a] = v, !.has = @ \cup {a}]

\* del self.<a>
delattr(s, a) == [s EXCEPT ![a] = Default[a], !.has = @ \ {a}]

Const(n, v) == [k \in 1..n |-> v]

Ok(s) == [s |-> s, err |-> "ok"]

Raise(s, e) == [s |-> s, err |-> e]

\* _is_fitted: len(getattr(self, "estimators_", [])) > 0
_is_fitted(s) == Len(s.estimators_) > 0

\* _init_state
_init_state(p, s) ==
    LET s1 == setattr(s, "estimators_", Const(p.n_estimators, "None"))
        s2 == setattr(s1, "train_score_", Const(p.n_estimators, ZeroScore))
        s3 == IF RatLess(p.subsample, One)
              THEN setattr(setattr(setattr(s2,
                       "oob_improvement_", Const(p.n_estimators, ZeroScore)),
                       "oob_scores_", Const(p.n_estimators, ZeroScore)),
                       "oob_score_", NanScore)
              ELSE s2
    IN  IF RatLess(Zero, p.dropout_rate)
        THEN setattr(s3, "_scale", Const(p.n_estimators, One))
        ELSE s3

\* _clear_state without lines 279-280: the scale vector is kept
_clear_state_keeps_scale(s) ==
    LET s1 == IF hasattr(s, "estimators_") THEN setattr(s, "estimators_", <<>>) ELSE s
        s2 == IF hasattr(s1, "train_score_") THEN delattr(s1, "train_score_") ELSE s1
        s3 == IF hasattr(s2, "oob_improvement_") THEN delattr(s2, "oob_improvement_") ELSE s2
        s4 == IF hasattr(s3, "oob_scores_") THEN delattr(s3, "oob_scores_") ELSE s3
        s5 == IF hasattr(s4, "oob_score_") THEN delattr(s4, "oob_score_") ELSE s4
    IN  IF hasattr(s5, "_rng") THEN delattr(s5, "_rng") ELSE s5

\* _clear_state
_clear_state(s) ==
    LET s1 == IF hasattr(s, "estimators_") THEN setattr(s, "estimators_", <<>>) ELSE s
        s2 == IF hasattr(s1, "train_score_") THEN delattr(s1, "train_score_") ELSE s1
        s3 == IF hasattr(s2, "oob_improvement_") THEN delattr(s2, "oob_improvement_") ELSE s2
        s4 == IF hasattr(s3, "oob_scores_") THEN delattr(s3, "oob_scores_") ELSE s3
        s5 == IF hasattr(s4, "oob_score_") THEN delattr(s4, "oob_score_") ELSE s4
        s6 == IF hasattr(s5, "_rng") THEN delattr(s5, "_rng") ELSE s5
    IN  IF hasattr(s6, "_scale") THEN delattr(s6, "_scale") ELSE s6

\* ------------------------------------------------- uninterpreted terms
\* Xi = np.column_stack((np.ones(n_samples), X)): column 0 is the intercept
Columns(X) == 0..X.n_features

Samples(X) == 1..X.n_samples

\* regr.predict(X) of the regressor in fitted state f
regr_predict(f, X) == [fit |-> f, X |-> X]

\* one summand lr * scale * prediction of a cumulative prediction; a
\* cumulative prediction is the sequence of its summands, in the order added
Summand(lr, scale, pred) == [lr |-> lr, scale |-> scale, pred |-> pred]

\* self._loss.gradient(y, y_pred, sample_weight)
loss_gradient(loss, X, y_pred) == [loss |-> loss, y |-> X, raw |-> y_pred]

\* self._loss(y_true[idx], raw_prediction[idx], sample_weight[idx])
loss_value(loss, X, idx, y_pred) ==
    [k |-> "loss", loss |-> loss, y |-> X, idx |-> idx, raw |-> y_pred]

\* a - b of two loss values
score_diff(a, b) == [k |-> "diff", a |-> a, b |-> b]

\* self._loss._scale_raw_prediction(pred)
scale_raw_prediction(loss, pred) == [loss |-> loss, raw |-> pred]

\* BreslowEstimator().fit(risk_scores, event, time): the model records the
\* loss scaling and the number of summands of the risk scores it was given,
\* and the data
BreslowEstimator_fit(risk, X) ==
    [k |-> "breslow", loss |-> risk.loss, n_terms |-> Len(risk.raw), y |-> X]

NoneModel == [k |-> "None"]

\* ------------------------------------------- base learner, stage selection
\* what a call of the wrapped regressor's fit can end in: a normal return
\* ("none") or an exception.  KeyboardInterrupt derives from BaseException
\* and not from Exception.
Raises == {"none", "TypeError", "ValueError", "KeyboardInterrupt"}

\* isinstance(e, Exception), the test of the except clause of line 57
IsException(e) == e \in {"TypeError", "ValueError"}

\* a wrapped regressor: what its fit ends in with and without sample_weight
Regressors == [weighted : Raises, unweighted : Raises]

\* a regressor whose fit takes sample_weight and raises nothing
Accepting == [weighted |-> "none", unweighted |-> "none"]

\* sample_weight of a call that passes none; a sample_weight that is passed
\* is the set of samples with weight 1, and samples are numbered from 1
NoWeight == {0}

\* self.regr.fit(X, y, sample_weight=w), and self.regr.fit(X, y) when w is
\* NoWeight: the fitted state the regressor is left in, or the exception
regr_fit(regr, X, y, w) ==
    LET e == IF w = NoWeight THEN regr.unweighted ELSE regr.weighted
    IN  IF e = "none"
        THEN [val |-> [fitted |-> TRUE, X |-> X, cols |-> Columns(X),
                       y |-> y, w |-> w],
              err |-> "ok"]
        ELSE [val |-> Unfitted, err |-> e]

\* the arguments of one call of self.regr.fit
FitCall(X, y, w) == [X |-> X, y |-> y, w |-> w]

\* _ComponentwiseBaseLearner.fit without the except clause: the exception
\* of the weighted fit reaches the caller
_ComponentwiseBaseLearner_fit_no_retry(regr, component, X, y, sample_weight) ==
    LET first == regr_fit(regr, X, y, sample_weight)
    IN  [val |-> first.val, err |-> first.err,
         calls |-> <<FitCall(X, y, sample_weight)>>]

\* _ComponentwiseBaseLearner(component, regr).fit(X, y, sample_weight),
\* lines 54-59: the value returned (self.regr, as its fit left it), the
\* exception that leaves the method, and the calls of self.regr.fit made
_ComponentwiseBaseLearner_fit(regr, component, X, y, sample_weight) ==
    LET first == regr_fit(regr, X, y, sample_weight)
        retry == regr_fit(regr, X, y, NoWeight)
    IN  IF first.err = "ok" \/ ~IsException(first.err)
        THEN [val |-> first.val, err |-> first.err,
              calls |-> <<FitCall(X, y, sample_weight)>>]
        ELSE [val |-> retry.val, err |-> retry.err,
              calls |-> <<FitCall(X, y, sample_weight), FitCall(X, y, NoWeight)>>]

\* _ComponentwiseBaseLearner(component, regr).fit(X, y, sample_weight):
\* with a regressor whose fit takes sample_weight: fits self.regr on X
\* (line 56) and returns self.regr (line 59).  The value is the fitted state
\* the one regressor object is left in.
BaseLearner_fit(component, X, y, w) ==
    _ComponentwiseBaseLearner_fit(Accepting, component, X, y, w).val

\* squared_norm(residuals - l_pred)
squared_error(residuals, l_pred) == [res |-> residuals, pred |-> l_pred]

\* np.nanargmin(error): the first index that holds the minimum.  Terms are
\* ordered only by equality, so the minimum is the first entry when all
\* entries are equal and the first entry that differs from its predecessors
\* is never preferred.
nanargmin(error) == 0

\* _fit_stage_componentwise(X, residuals, sample_weight, regr): what
\* self.regr is left as, and what estimators_[i] is given.  Every candidate
\* is the object regr itself (fit returns self.regr), so is the winner.
_fit_stage_componentwise(X, residuals, w) ==
    LET learner == [c \in Columns(X) |-> BaseLearner_fit(c, X, residuals, w)]
        error == [c \in Columns(X) |->
                     squared_error(residuals, regr_predict(learner[c], X))]
        best_component == nanargmin(error)
    IN  [regr |-> learner[X.n_features], best_learner |-> "regr",
         best_component |-> best_component, error |-> error]

\* estimator.predict(X) for an entry of estimators_
est_predict(s, e, X) == regr_predict(s.regr, X)

\* ------------------------------------------------------------ predictions
FirstNone(est, idx) ==
    LET bad == {m \in idx : est[m] = "None"}
    IN  IF bad = {} THEN 0 ELSE CHOOSE m \in bad : \A k \in bad : m <= k

\* _raw_predict(X): AttributeError at the first entry that is None
_raw_predict(p, s, X) ==
    IF FirstNone(s.estimators_, DOMAIN s.estimators_) # 0
    THEN [val |-> <<>>, err |-> "AttributeError"]
    ELSE [val |-> [m \in DOMAIN s.estimators_ |->
                     Summand(p.learning_rate, One,
                             est_predict(s, s.estimators_[m], X))],
          err |-> "ok"]

\* _predict(X)
_predict(p, s, X) ==
    LET r == _raw_predict(p, s, X)
    IN  IF r.err # "ok" THEN r
        ELSE [val |-> scale_raw_prediction(s._loss, r.val), err |-> "ok"]

\* ------------------------------------------------------------------ dropout
\* what the generator yields in one _sample_binomial_plus_one(p, i + 1, rng):
\* the stages the binomial draw selects and the index randint would give
DropDraws(i) == [binom : SUBSET (0..i), idx : 0..i]

NoDraw == [binom |-> {0}, idx |-> 0]

\* _sample_binomial_plus_one without lines 42-45: the binomial draw as it is
_sample_binomial_as_drawn(dr) ==
    [drop_model |-> dr.binom, n_dropped |-> Cardinality(dr.binom), drawn |-> 1]

\* _sample_binomial_plus_one
_sample_binomial_plus_one(dr) ==
    IF dr.binom = {}
    THEN [drop_model |-> {dr.idx}, n_dropped |-> 1, drawn |-> 2]
    ELSE [drop_model |-> dr.binom, n_dropped |-> Cardinality(dr.binom), drawn |-> 1]

SubSeqOrEmpty(q, a, b) == IF a > b THEN <<>> ELSE SubSeq(q, a, b)

RECURSIVE KeptSummands(_, _, _, _, _, _)
KeptSummands(p, s, scale, kept, X, m) ==
    IF m > Len(kept) THEN <<>>
    ELSE <<Summand(p.learning_rate, scale[kept[m] + 1],
                   est_predict(s, s.estimators_[kept[m] + 1], X))>>
         \o KeptSummands(p, s, scale, kept, X, m + 1)

\* the members of a set of integers in increasing order
RECURSIVE Sorted(_)
Sorted(S) ==
    IF S = {} THEN <<>>
    ELSE LET m == CHOOSE x \in S : \A y \in S : x <= y
         IN  <<m>> \o Sorted(S \ {m})

\* _update_with_dropout with the factor of line 293 inverted:
\* scale[m] *= (n_dropped + 1.0) / n_dropped
_update_with_dropout_inverse(p, s, i, X, dr) ==
    LET smp == _sample_binomial_plus_one(dr)
        n == smp.n_dropped
        s1 == [s EXCEPT !._rng = @ + smp.drawn]
    IN  IF i + 1 >= Len(s._scale)
        THEN [s |-> s1, y_pred |-> <<>>, err |-> "IndexError"]
        ELSE LET sc1 == [s._scale EXCEPT ![i + 2] = Rat(1, n + 1)]
                 bad == FirstNone(s.estimators_,
                                  {m + 1 : m \in (0..i) \ smp.drop_model})
                 upto == IF bad = 0 THEN i ELSE bad - 2
                 sc2 == [m \in DOMAIN sc1 |->
                           IF (m - 1) \in smp.drop_model /\ m - 1 <= upto
                           THEN RatMul(sc1[m], Rat(n + 1, n)) ELSE sc1[m]]
                 kept == Sorted((0..upto) \ smp.drop_model)
                 s2 == [s1 EXCEPT !._scale = sc2]
             IN  [s |-> s2,
                  y_pred |-> KeptSummands(p, s2, sc2, kept, X, 1),
                  err |-> IF bad = 0 THEN "ok" ELSE "AttributeError"]

\* _update_with_dropout(i, X, raw_predictions, scale, random_state) with
\* scale = self._scale and random_state = self._rng: the object, the new
\* raw_predictions and the exception
_update_with_dropout(p, s, i, X, dr) ==
    LET smp == _sample_binomial_plus_one(dr)
        n == smp.n_dropped
        s1 == [s EXCEPT !._rng = @ + smp.drawn]
    IN  IF i + 1 >= Len(s._scale)
        THEN [s |-> s1, y_pred |-> <<>>, err |-> "IndexError"]
        ELSE LET sc1 == [s._scale EXCEPT ![i + 2] = Rat(1, n + 1)]
                 bad == FirstNone(s.estimators_,
                                  {m + 1 : m \in (0..i) \ smp.drop_model})
                 upto == IF bad = 0 THEN i ELSE bad - 2
                 sc2 == [m \in DOMAIN sc1 |->
                           IF (m - 1) \in smp.drop_model /\ m - 1 <= upto
                           THEN RatMul(sc1[m], Rat(n, n + 1)) ELSE sc1[m]]
                 kept == Sorted((0..upto) \ smp.drop_model)
                 s2 == [s1 EXCEPT !._scale = sc2]
             IN  [s |-> s2,
                  y_pred |-> KeptSummands(p, s2, sc2, kept, X, 1),
                  err |-> IF bad = 0 THEN "ok" ELSE "AttributeError"]

\* ------------------------------------------------------------ _resize_state
_resize_state(p, s) ==
    LET total == p.n_estimators
        s1 == setattr(s, "estimators_", np_resize(s.estimators_, total))
        s2 == setattr(s1, "train_score_", np_resize(s1.train_score_, total))
        s3 == IF RatLess(p.subsample, One) \/ hasattr(s2, "oob_improvement_")
              THEN IF hasattr(s2, "oob_improvement_")
                   THEN setattr(setattr(setattr(s2,
                          "oob_improvement_", np_resize(s2.oob_improvement_, total)),
                          "oob_scores_", np_resize(s2.oob_scores_, total)),
                          "oob_score_", NanScore)
                   ELSE setattr(setattr(setattr(s2,
                          "oob_improvement_", Const(total, ZeroScore)),
                          "oob_scores_", Const(total, ZeroScore)),
                          "oob_score_", NanScore)
              ELSE s2
    IN  IF RatLess(Zero, p.dropout_rate)
        THEN IF ~hasattr(s3, "_scale")
             THEN Raise(s3, "ValueError_dropout")
             ELSE LET s4 == setattr(s3, "_scale", np_resize(s3._scale, total))
                  IN  IF ~hasattr(s4, "n_estimators_")
                      THEN Raise(s4, "AttributeError")
                      ELSE Ok([s4 EXCEPT !._scale =
                                 [m \in DOMAIN @ |->
                                    IF m > s4.n_estimators_ THEN One ELSE @[m]]])
        ELSE Ok(s3)

\* --------------------------------------------------------------------- fit
\* the locals of fit and _fit that a later step reads; draws is what the
\* generator has yielded to the loop of _fit so far, a mask and a dropout
\* draw per stage
NoFrame ==
    [X |-> NoData, y_pred |-> <<>>, begin_at_stage |-> 0, i |-> 0,
     initial_loss |-> NanScore, draws |-> <<>>]

FitFrame(X, y_pred, begin) ==
    [X |-> X, y_pred |-> y_pred, begin_at_stage |-> begin, i |-> begin,
     initial_loss |-> NanScore, draws |-> <<>>]

Raised(s, e) == [s |-> s, err |-> e, frame |-> NoFrame]

\* check_random_state(self.random_state) for an integer seed: a new
\* generator, no value drawn from it yet
check_random_state == 0

\* line 433: self._fit(regr, Xi, event, time, y_pred, sample_weight,
\* self._rng, begin_at_stage) passes eight positional arguments to
\* _fit(self, X, event, time, y_pred, sample_weight, random_state,
\* begin_at_stage=0), which takes seven: the call raises TypeError before
\* _fit's body runs, and n_estimators_ is not assigned
call_fit(s, X, y_pred, begin) ==
    [s |-> s, err |-> "TypeError", frame |-> FitFrame(X, y_pred, begin)]

\* line 418 with the comparison off by one
warm_start_too_small_off_by_one(p, s) == p.n_estimators < Len(s.estimators_) - 1

\* the guard of line 418
warm_start_too_small(p, s) == p.n_estimators < Len(s.estimators_)

\* lines 415-433, the branch taken when _is_fitted()
fit_warm(p, s, d, dr) ==
    IF warm_start_too_small(p, s) THEN Raised(s, "ValueError_warm_start")
    ELSE LET begin_at_stage == Len(s.estimators_)
             rp == _raw_predict(p, s, d)
         IN  IF rp.err # "ok" THEN Raised(s, rp.err)
             ELSE LET rs == _resize_state(p, s)
                  IN  IF rs.err # "ok" THEN Raised(rs.s, rs.err)
                      ELSE IF hasattr(rs.s, "_scale") /\ RatLess(Zero, p.dropout_rate)
                      THEN LET ud == _update_with_dropout(
                                         p, rs.s, rs.s.n_estimators_ - 1, d, dr)
                           IN  IF ud.err # "ok" THEN Raised(ud.s, ud.err)
                               ELSE call_fit(ud.s, d, ud.y_pred, begin_at_stage)
                      ELSE call_fit(rs.s, d, rp.val, begin_at_stage)

\* lines 407-414, the branch taken when not _is_fitted()
fit_cold(p, s, d) ==
    LET s1 == _init_state(p, s)
        s2 == setattr(s1, "_rng", check_random_state)
    IN  call_fit(s2, d, <<>>, 0)

\* lines 392-393 without the test of warm_start
clear_always(p, s) == _clear_state(s)

\* lines 392-393
clear_unless_warm(p, s) == IF p.warm_start THEN s ELSE _clear_state(s)

\* lines 392-433 of fit, reached once _validate_params() has returned
fit_validated(p, s, d, dr) ==
    LET s1 == clear_unless_warm(p, s)
    IN  IF validate_data(d) # "ok" THEN Raised(s1, validate_data(d))
        ELSE LET s2 == setattr(s1, "n_features_in_", d.n_features)
             IN  IF check_array_survival(d) # "ok"
                 THEN Raised(s2, check_array_survival(d))
                 ELSE LET s3 == setattr(s2, "_loss", LOSS_FUNCTIONS(p.loss))
                      IN  IF ~_is_fitted(s3) THEN fit_cold(p, s3, d)
                          ELSE fit_warm(p, s3, d, dr)

\* fit with lines 392-393 moved before _validate_params (line 390)
fit_clear_first(p, s, d, dr) ==
    IF ~ParamsValid(p)
    THEN Raised(clear_unless_warm(p, s), "InvalidParameterError")
    ELSE fit_validated(p, s, d, dr)

\* fit(regr, X, y): the object left behind, the exception raised and, when
\* line 433 is reached, the arguments computed for _fit
fit(p, s, d, dr) ==
    IF ~ParamsValid(p) THEN Raised(s, "InvalidParameterError")
    ELSE fit_validated(p, s, d, dr)

\* _set_baseline_model(X, event, time)
_set_baseline_model(p, s, X) ==
    IF s._loss = "CoxPH"
    THEN LET r == _predict(p, s, X)
         IN  IF r.err # "ok" THEN Raise(s, r.err)
             ELSE Ok(setattr(s, "_baseline_model", BreslowEstimator_fit(r.val, X)))
    ELSE Ok(setattr(s, "_baseline_model", NoneModel))

\* ------------------------------------------------------------------ queries
NoVal == [k |-> "none"]

\* check_is_fitted(self, "estimators_")
check_is_fitted(s) == hasattr(s, "estimators_")

\* self.regr._predict(X), line 478: the regression interface is fit and
\* predict; the wrapped regressor has no method _predict
regr__predict(s, X) == [val |-> NoVal, err |-> "AttributeError"]

\* predict(X)
predict(p, s, X) ==
    IF ~check_is_fitted(s) THEN [val |-> NoVal, err |-> "NotFittedError"]
    ELSE regr__predict(s, X)

\* _get_baseline_model()
_get_baseline_model(s) ==
    IF ~hasattr(s, "_baseline_model") THEN [val |-> NoVal, err |-> "AttributeError"]
    ELSE IF s._baseline_model = NoneModel THEN [val |-> NoVal, err |-> "ValueError_coxph"]
    ELSE [val |-> s._baseline_model, err |-> "ok"]

\* predict_cumulative_hazard_function(X) and predict_survival_function(X):
\* the arguments are evaluated left to right, the baseline model first
predict_function(p, s, which, X) ==
    LET b == _get_baseline_model(s)
    IN  IF b.err # "ok" THEN b
        ELSE LET r == predict(p, s, X)
             IN  IF r.err # "ok" THEN r
                 ELSE [val |-> [k |-> which, baseline |-> b.val, pred |-> r.val],
                       err |-> "ok"]

\* the property unique_times_
unique_times_(s) ==
    LET b == _get_baseline_model(s)
    IN  IF b.err # "ok" THEN b
        ELSE [val |-> [k |-> "unique_times_", baseline |-> b.val], err |-> "ok"]

\* the X a query is given: one row, NFeatures columns
QueryX == [n_samples |-> 1, n_y |-> 0, n_events |-> 0, n_features |-> NFeatures]

\* ------------------------------------------------------------------ actions
Called(op, err, X, val) == [op |-> op, err |-> err, X |-> X, val |-> val]

Init ==
    /\ params \in ParamSpace
    /\ self = NewEstimator
    /\ last = Called("__init__", "ok", NoData, NoVal)
    /\ pc = "idle"
    /\ frame = NoFrame

\* set_params(name=v)
SetParams(name, v) ==
    /\ pc = "idle"
    /\ v # params[name]
    /\ params' = [params EXCEPT ![name] = v]
    /\ last' = Called("set_params", "ok", NoData, NoVal)
    /\ frame' = NoFrame
    /\ UNCHANGED <<self, pc>>

\* The fitted state of the regressor object self.regr is read only through
\* the entries of estimators_ that refer to it.  While no entry does, the
\* next read is preceded by regr.fit (line 56), which replaces that state:
\* it is dropped from the estimator's state.
Collect(s) ==
    IF \E m \in DOMAIN s.estimators_ : s.estimators_[m] = "regr" THEN s
    ELSE [s EXCEPT !.regr = Unfitted]

\* what the generator can yield to line 431 of a fit call
FitDraws(p, s) ==
    IF hasattr(s, "_scale") /\ hasattr(s, "n_estimators_") /\ s.n_estimators_ >= 1
       /\ RatLess(Zero, p.dropout_rate)
    THEN DropDraws(s.n_estimators_ - 1)
    ELSE {NoDraw}

\* fit(regr, X, y); dr is what the generator yields if line 431 draws
Fit(d) ==
    /\ pc = "idle"
    /\ \E dr \in FitDraws(params, self) :
         \E r \in {fit(params, self, d, dr)} :
             /\ self' = Collect(r.s)
             /\ last' = Called("fit", r.err, d, NoVal)
    /\ frame' = NoFrame
    /\ UNCHANGED <<params, pc>>

\* predict(X)
Predict ==
    /\ pc = "idle"
    /\ \E r \in {predict(params, self, QueryX)} :
           last' = Called("predict", r.err, QueryX, r.val)
    /\ frame' = NoFrame
    /\ UNCHANGED <<params, self, pc>>

\* predict_cumulative_hazard_function(X), predict_survival_function(X)
PredictFunction(which) ==
    /\ pc = "idle"
    /\ \E r \in {predict_function(params, self, which, QueryX)} :
           last' = Called(which, r.err, QueryX, r.val)
    /\ frame' = NoFrame
    /\ UNCHANGED <<params, self, pc>>

\* unique_times_
UniqueTimes ==
    /\ pc = "idle"
    /\ \E r \in {unique_times_(self)} :
           last' = Called("unique_times_", r.err, NoData, r.val)
    /\ frame' = NoFrame
    /\ UNCHANGED <<params, self, pc>>

FunctionNames ==
    {"predict_cumulative_hazard_function", "predict_survival_function"}

\* --------------------------------------------------------------- _fit
\* line 305 without the lower bound: int(self.subsample * n_samples)
n_inbag_unclamped(p, X) == (p.subsample[1] * X.n_samples) \div p.subsample[2]

\* n_inbag = max(1, int(self.subsample * n_samples))
n_inbag(p, X) == Max(1, (p.subsample[1] * X.n_samples) \div p.subsample[2])

\* _random_sample_mask(n_samples, n_inbag, random_state): the masks it can
\* return, each the set of in-bag samples
SampleMasks(p, X) ==
    IF RatLess(p.subsample, One)
    THEN {m \in SUBSET Samples(X) : Cardinality(m) = n_inbag(p, X)}
    ELSE {Samples(X)}

\* lines 341-344: the cumulative prediction after stage i
stage_update(p, s, i, X, y_pred, dr) ==
    IF RatLess(Zero, p.dropout_rate) /\ i < Len(s._scale) - 1
    THEN _update_with_dropout(p, s, i, X, dr)
    ELSE [s |-> s,
          y_pred |-> Append(y_pred, Summand(p.learning_rate, One,
                                est_predict(s, s.estimators_[i + 1], X))),
          err |-> "ok"]

\* lines 347-363 with line 358 always taking initial_loss as previous_loss
track_loss_initial_always(p, s, i, X, mask, y_pred, initial_loss) ==
    IF RatLess(p.subsample, One)
    THEN LET oob == Samples(X) \ mask
             tr == loss_value(s._loss, X, mask, y_pred)
             ob == loss_value(s._loss, X, oob, y_pred)
             s1 == [s EXCEPT !.train_score_[i + 1] = tr,
                             !.oob_scores_[i + 1] = ob]
             s2 == [s1 EXCEPT !.oob_improvement_[i + 1] =
                                 score_diff(initial_loss, ob)]
         IN  setattr(s2, "oob_score_", s2.oob_scores_[Len(s2.oob_scores_)])
    ELSE [s EXCEPT !.train_score_[i + 1] =
                      loss_value(s._loss, X, Samples(X), y_pred)]

\* lines 347-363: the traces after stage i
track_loss(p, s, i, X, mask, y_pred, initial_loss) ==
    IF RatLess(p.subsample, One)
    THEN LET oob == Samples(X) \ mask
             tr == loss_value(s._loss, X, mask, y_pred)
             ob == loss_value(s._loss, X, oob, y_pred)
             s1 == [s EXCEPT !.train_score_[i + 1] = tr,
                             !.oob_scores_[i + 1] = ob]
             previous_loss == IF i = 0 THEN initial_loss ELSE s1.oob_scores_[i]
             s2 == [s1 EXCEPT !.oob_improvement_[i + 1] =
                                 score_diff(previous_loss, ob)]
         IN  setattr(s2, "oob_score_", s2.oob_scores_[Len(s2.oob_scores_)])
    ELSE [s EXCEPT !.train_score_[i + 1] =
                      loss_value(s._loss, X, Samples(X), y_pred)]

\* one iteration of the loop of _fit, lines 317-366
fit_stage(p, s, f, mask, dr) ==
    LET i == f.i
        X == f.X
        do_oob == RatLess(p.subsample, One)
        s0 == IF do_oob THEN [s EXCEPT !._rng = @ + 1] ELSE s
        initial_loss == IF do_oob /\ i = 0
                        THEN loss_value(s._loss, X, Samples(X) \ mask, f.y_pred)
                        ELSE f.initial_loss
        residuals == loss_gradient(s._loss, X, f.y_pred)
        st == _fit_stage_componentwise(X, residuals, mask)
        s1 == [s0 EXCEPT !.regr = st.regr,
                         !.estimators_[i + 1] = st.best_learner]
        up == stage_update(p, s1, i, X, f.y_pred, dr)
    IN  IF up.err # "ok" THEN [s |-> up.s, err |-> up.err, frame |-> NoFrame]
        ELSE [s |-> track_loss(p, up.s, i, X, mask, up.y_pred, initial_loss),
              err |-> "ok",
              frame |-> [f EXCEPT !.i = i + 1, !.y_pred = up.y_pred,
                                  !.initial_loss = initial_loss,
                                  !.draws = Append(@, [mask |-> mask, dr |-> dr])]]

\* line 368, return i + 1: i is the last stage run, or begin_at_stage when
\* the loop body did not run
fit_return(f) == IF f.i > f.begin_at_stage THEN f.i ELSE f.begin_at_stage + 1

\* fit(regr, X, y) up to line 433, where _fit is entered with the arguments
\* fit computed for it; lines 299-316 of _fit
FitEnter(d) ==
    /\ pc = "idle"
    /\ params.warm_start => self._rng < MaxDraws
    /\ \E dr \in FitDraws(params, self) :
         \E r \in {fit(params, self, d, dr)} :
         LET entered == r.err = "TypeError"
             no_scale == RatLess(Zero, params.dropout_rate) /\ ~hasattr(r.s, "_scale")
         IN  /\ self' = Collect(r.s)
             /\ pc' = IF entered /\ ~no_scale THEN "_fit" ELSE "idle"
             /\ last' = IF ~entered THEN Called("fit", r.err, d, NoVal)
                        ELSE IF no_scale THEN Called("fit", "AttributeError", d, NoVal)
                        ELSE Called("_fit", "running", d, NoVal)
             /\ frame' = IF entered /\ ~no_scale THEN r.frame ELSE NoFrame
    /\ UNCHANGED params

\* what the generator can yield to line 342 in stage i
StageDraws(p, s, i) ==
    IF RatLess(Zero, p.dropout_rate) /\ i < Len(s._scale) - 1
    THEN DropDraws(i) ELSE {NoDraw}

\* one boosting iteration
FitLoopStage ==
    /\ pc = "_fit"
    /\ frame.i < params.n_estimators
    /\ \E mask \in SampleMasks(params, frame.X) : \E dr \in StageDraws(params, self, frame.i) :
         \E r \in {fit_stage(params, self, frame, mask, dr)} :
             /\ self' = r.s
             /\ frame' = r.frame
             /\ pc' = IF r.err = "ok" THEN "_fit" ELSE "idle"
             /\ last' = IF r.err = "ok" THEN last
                        ELSE Called("fit", r.err, frame.X, NoVal)
    /\ UNCHANGED params

\* _fit returns; line 433 assigns n_estimators_, line 435 sets the baseline
\* model, line 436 returns
FitLoopReturn ==
    /\ pc = "_fit"
    /\ frame.i >= params.n_estimators
    /\ \E r \in {_set_baseline_model(
                       params, setattr(self, "n_estimators_", fit_return(frame)),
                       frame.X)} :
           /\ self' = r.s
           /\ last' = Called("fit", r.err, frame.X, NoVal)
    /\ pc' = "idle"
    /\ frame' = NoFrame
    /\ UNCHANGED params

\* ------------------------------------------------------- specifications
Queries ==
    \/ Predict
    \/ \E which \in FunctionNames : PredictFunction(which)
    \/ UniqueTimes

Next ==
    \/ \E name \in ParamNames : \E v \in ParamValues[name] : SetParams(name, v)
    \/ \E d \in DataSets : Fit(d)
    \/ Queries

Spec == Init /\ [][Next]_vars

\* the hyperparameter values of SpecLoop, all of them valid
LoopParamValues ==
    [loss          |-> {"coxph", "squared"},
     learning_rate |-> {1},
     n_estimators  |-> 1..MaxEstimators,
     subsample     |-> {One},
     warm_start    |-> BOOLEAN,
     dropout_rate  |-> {Zero, <<1, 2>>}]

\* the (X, y) of SpecLoop: y has an event and as many entries as X has rows
LoopDataSets == {d \in DataSets : check_array_survival(d) = "ok"}

InitLoop ==
    /\ Init
    /\ \A name \in ParamNames : params[name] \in LoopParamValues[name]

NextLoop ==
    \/ \E name \in ParamNames : \E v \in LoopParamValues[name] : SetParams(name, v)
    \/ \E d \in LoopDataSets : FitEnter(d)
    \/ FitLoopStage
    \/ FitLoopReturn

SpecLoop == InitLoop /\ [][NextLoop]_vars

\* ------------------------------------------------------------------ claims
\* the estimator attributes a fit builds: ensemble, traces, scale, generator
FittedAttrs ==
    {"estimators_", "train_score_", "oob_improvement_", "oob_scores_",
     "oob_score_", "_scale", "_rng"}

\* the attributes of FittedAttrs exist in t exactly as in s, with the same
\* values
SameFitted(s, t) ==
    \A a \in FittedAttrs : hasattr(s, a) = hasattr(t, a) /\ s[a] = t[a]

\* every stage of the ensemble holds a fitted learner
AllStagesFitted(s) ==
    \A m \in DOMAIN s.estimators_ : s.estimators_[m] # "None"

\* C1: a fit with warm_start=False, valid hyperparameters and valid data
\* completes and leaves exactly n_estimators fitted stages, with
\* len(estimators_) = n_estimators = n_estimators_.
C1_ColdFitCompletes ==
    (/\ last.op = "fit"
     /\ ~params.warm_start
     /\ ParamsValid(params)
     /\ DataValid(last.X))
    => /\ last.err = "ok"
       /\ hasattr(self, "n_estimators_")
       /\ Len(self.estimators_) = params.n_estimators
       /\ self.n_estimators_ = params.n_estimators
       /\ AllStagesFitted(self)

\* the learner stage m refers to, as the fitted state that decides its
\* predictions
StageFn(s, m) == IF s.estimators_[m] = "regr" THEN s.regr ELSE Unfitted

\* C2: a warm-start fit that extends an ensemble of k stages to m > k stages
\* ends with m stages, and no step of it changes the learner or the
\* prediction function of a stage i < k.
C2_PriorStagesImmutable ==
    [][/\ (pc' = "_fit" /\ frame'.begin_at_stage > 0)
          => \A m \in 1..frame'.begin_at_stage :
                /\ m \in DOMAIN self.estimators_
                /\ StageFn(self', m) = StageFn(self, m)
       /\ (pc = "_fit" /\ pc' = "idle" /\ last'.err = "ok")
          => Len(self'.estimators_) = params.n_estimators]_vars

\* C3: a warm-start fit of a fitted model with valid hyperparameters and
\* data, whose n_estimators is smaller than the ensemble, raises the
\* ValueError of line 419 and leaves the ensemble, the traces, the scale
\* vector and the generator as they were.
C3_WarmStartTooSmall ==
    [][(/\ pc = "idle"
        /\ last'.op \in {"fit", "_fit"}
        /\ params.warm_start
        /\ ParamsValid(params)
        /\ DataValid(last'.X)
        /\ _is_fitted(self)
        /\ params.n_estimators < Len(self.estimators_))
       => /\ last'.op = "fit"
          /\ last'.err = "ValueError_warm_start"
          /\ pc' = "idle"
          /\ SameFitted(self, self')]_vars

\* a fitted ensemble with its scale vector has refused a smaller n_estimators
C3_Witness ==
    /\ last.op = "fit"
    /\ last.err = "ValueError_warm_start"
    /\ params.warm_start
    /\ AllStagesFitted(self)
    /\ hasattr(self, "_scale")
    /\ Len(self.estimators_) > params.n_estimators

\* C4: when a warm-start fit raises the ValueError about dropout_rate > 0
\* after a fit without dropout, estimators_ and train_score_ still have the
\* length and contents they had before the call.
C4_DropoutErrorBeforeWork ==
    [][(/\ pc = "idle"
        /\ last'.op = "fit"
        /\ last'.err = "ValueError_dropout")
       => /\ self'.estimators_ = self.estimators_
          /\ self'.train_score_ = self.train_score_]_vars

\* C5: fit with a hyperparameter outside its range raises
\* InvalidParameterError and changes nothing of the estimator, whether
\* warm_start is set or not.
C5_InvalidParamsNoChange ==
    [][(/\ pc = "idle"
        /\ last'.op = "fit"
        /\ ~ParamsValid(params))
       => /\ last'.err = "InvalidParameterError"
          /\ self' = self]_vars

\* fit has refused invalid hyperparameters with warm_start=False on an
\* estimator that holds an ensemble, a trace, a scale vector and a generator
C5_Witness ==
    /\ last.op = "fit"
    /\ last.err = "InvalidParameterError"
    /\ ~params.warm_start
    /\ {"estimators_", "train_score_", "_scale", "_rng"} \subseteq self.has
    /\ Len(self.estimators_) > 0

\* the errors of fit's input validation (lines 395-396)
DataErrors ==
    {"ValueError_min_samples", "ValueError_all_censored",
     "ValueError_inconsistent_length"}

\* C6: fit with warm_start=False and invalid data on a fitted model raises
\* the input validation error while the ensemble, the traces, the scale
\* vector and the generator of the earlier fit are still present.
C6_ValidateBeforeDiscard ==
    [][(/\ pc = "idle"
        /\ last'.op = "fit"
        /\ ~params.warm_start
        /\ ParamsValid(params)
        /\ ~DataValid(last'.X)
        /\ _is_fitted(self)
        /\ AllStagesFitted(self))
       => /\ last'.err \in DataErrors
          /\ SameFitted(self, self')]_vars

\* C7: after a fit call that raised, the estimator does not report itself
\* fitted while estimators_ holds stages that were never fitted.
C7_NoPartialModel ==
    (last.op = "fit" /\ last.err # "ok")
    => ~(_is_fitted(self) /\ ~AllStagesFitted(self))

\* C8: between calls, once the attribute _baseline_model exists it holds a
\* baseline model exactly when the loss object held by the estimator is the
\* Cox partial-likelihood loss.
C8_BaselineIffCox ==
    (pc = "idle" /\ hasattr(self, "_baseline_model"))
    => ((self._baseline_model # NoneModel) <=> (self._loss = "CoxPH"))

\* a fit with the Cox loss has completed and stored its baseline model
CoxFitCompleted(s) ==
    hasattr(s, "_baseline_model") /\ s._baseline_model # NoneModel

\* C9: predict_cumulative_hazard_function, predict_survival_function and
\* unique_times_ raise the ValueError naming loss 'coxph' whenever no
\* Cox-loss fit has completed, on a never-fitted estimator too.
C9_UsageErrorBeforeCoxFit ==
    (/\ last.op \in FunctionNames \cup {"unique_times_"}
     /\ ~CoxFitCompleted(self))
    => last.err = "ValueError_coxph"

\* the prediction the ensemble of s stands for on X: the loss scaling of the
\* summands learning_rate * scale[m] * prediction of stage m
ScaledSum(p, s, X) ==
    scale_raw_prediction(s._loss,
        [m \in DOMAIN s.estimators_ |->
            Summand(p.learning_rate,
                    IF hasattr(s, "_scale") THEN s._scale[m] ELSE One,
                    est_predict(s, s.estimators_[m], X))])

\* C10: predict(X) on a fitted model returns the loss scaling of
\* learning_rate times the sum of the stages' predictions, each multiplied
\* by its dropout scale when the model was trained with dropout.
C10_PredictIsScaledSum ==
    (/\ pc = "idle"
     /\ _is_fitted(self)
     /\ AllStagesFitted(self)
     /\ hasattr(self, "n_estimators_"))
    => predict(params, self, QueryX)
         = [val |-> ScaledSum(params, self, QueryX), err |-> "ok"]

\* the loop of _fit run to its end on the draws given, from stage k of them
RECURSIVE run_stages(_, _, _, _)
run_stages(p, r, draws, k) ==
    IF k > Len(draws) \/ r.err # "ok" THEN r
    ELSE run_stages(p, fit_stage(p, r.s, r.frame, draws[k].mask, draws[k].dr),
                    draws, k + 1)

\* fit(regr, X, y) on a newly constructed estimator, the generator yielding
\* the draws given: the estimator it leaves behind
FreshFit(p, X, draws) ==
    LET e == fit(p, NewEstimator, X, NoDraw)
        r == run_stages(p, [s |-> e.s, err |-> "ok", frame |-> e.frame], draws, 1)
    IN  _set_baseline_model(p, setattr(r.s, "n_estimators_", fit_return(r.frame)),
                            X).s

\* C11: a successful fit with warm_start=False leaves the estimator in the
\* state the same fit, with the same draws of the generator, leaves a newly
\* constructed estimator in, whatever was fitted before.
C11_ColdFitForgetsHistory ==
    [][(/\ pc = "_fit"
        /\ pc' = "idle"
        /\ last'.err = "ok"
        /\ ~params.warm_start)
       => self' = FreshFit(params, frame.X, frame.draws)]_vars

\* a fit with warm_start=False has completed on an estimator that held an
\* ensemble, a scale vector and a generator that had yielded values
C11_Witness ==
    /\ pc = "_fit"
    /\ ~params.warm_start
    /\ frame.i >= params.n_estimators
    /\ frame.begin_at_stage = 0
    /\ frame.i = MaxEstimators
    /\ self._rng > 0
    /\ hasattr(self, "n_estimators_")
    /\ hasattr(self, "_baseline_model")

\* ---------------------------------------------------------------- SpecOob
\* the hyperparameter values of SpecOob: subsampling varies, no dropout
OobParamValues ==
    [loss          |-> {"coxph", "squared"},
     learning_rate |-> {1},
     n_estimators  |-> 1..MaxEstimators,
     subsample     |-> {<<1, 3>>, <<1, 2>>, One},
     warm_start    |-> BOOLEAN,
     dropout_rate  |-> {Zero}]

InitOob ==
    /\ Init
    /\ \A name \in ParamNames : params[name] \in OobParamValues[name]

NextOob ==
    \/ \E name \in ParamNames : \E v \in OobParamValues[name] : SetParams(name, v)
    \/ \E d \in LoopDataSets : FitEnter(d)
    \/ FitLoopStage
    \/ FitLoopReturn

\* SpecLoop with subsampling in place of dropout
SpecOob == InitOob /\ [][NextOob]_vars

OobAttrs == {"oob_improvement_", "oob_scores_", "oob_score_"}

\* C12: after a successful fit with subsample = 1.0 the estimator has none
\* of the attributes oob_improvement_, oob_scores_, oob_score_.
C12_NoOobWithoutSubsample ==
    [][(/\ pc = "_fit"
        /\ pc' = "idle"
        /\ last'.err = "ok"
        /\ params.subsample = One)
       => self'.has \cap OobAttrs = {}]_vars

\* the held-out samples of the stage whose draws are dw
HeldOut(X, dw) == Samples(X) \ dw.mask

\* C13: after a successful fit from the unfit state with subsample < 1.0,
\* oob_scores_ and oob_improvement_ have n_estimators entries;
\* oob_scores_[i] is the loss on the held-out samples of stage i after the
\* stage was added; oob_improvement_[0] is the loss of the initial
\* prediction on stage 0's held-out samples minus oob_scores_[0], and
\* oob_improvement_[i] = oob_scores_[i-1] - oob_scores_[i] for i >= 1.
C13_OobTraces ==
    [][(/\ pc = "_fit"
        /\ pc' = "idle"
        /\ last'.err = "ok"
        /\ frame.begin_at_stage = 0
        /\ RatLess(params.subsample, One))
       => /\ Len(self'.oob_scores_) = params.n_estimators
          /\ Len(self'.oob_improvement_) = params.n_estimators
          /\ Len(frame.draws) = params.n_estimators
          /\ \A m \in 1..params.n_estimators :
                /\ self'.oob_scores_[m]
                     = loss_value(self'._loss, frame.X, HeldOut(frame.X, frame.draws[m]),
                                  SubSeq(frame.y_pred, 1, m))
                /\ self'.oob_improvement_[m]
                     = score_diff(IF m = 1
                                  THEN loss_value(self'._loss, frame.X,
                                                  HeldOut(frame.X, frame.draws[1]), <<>>)
                                  ELSE self'.oob_scores_[m - 1],
                                  self'.oob_scores_[m])]_vars

\* a fit from the unfit state with subsample < 1.0 has completed with
\* MaxEstimators stages
C13_Witness ==
    /\ pc = "idle"
    /\ last.op = "fit"
    /\ last.err = "ok"
    /\ ~params.warm_start
    /\ RatLess(params.subsample, One)
    /\ params.n_estimators = MaxEstimators
    /\ Len(self.oob_scores_) = MaxEstimators
    /\ OobAttrs \subseteq self.has

\* C14: after a successful fit that leaves the out-of-bag attributes in
\* place, oob_score_ is the last entry of oob_scores_.
C14_OobScoreIsLast ==
    (/\ pc = "idle"
     /\ last.op = "fit"
     /\ last.err = "ok"
     /\ OobAttrs \subseteq self.has)
    => /\ Len(self.oob_scores_) > 0
       /\ self.oob_score_ = self.oob_scores_[Len(self.oob_scores_)]

\* every entry of the scale vector lies in (0, 1]
ScaleInRange(s) ==
    hasattr(s, "_scale")
    => \A m \in DOMAIN s._scale :
          RatLess(Zero, s._scale[m]) /\ ~RatLess(One, s._scale[m])

\* the stages a draw of _sample_binomial_plus_one drops
Dropped(dr) == _sample_binomial_plus_one(dr).drop_model

\* over a step, the scale of each of the first n stages decreases strictly
\* if the stage is in the dropped set D and is unchanged otherwise
ScaleStep(n, D) ==
    \A m \in 1..n :
       (m \in DOMAIN self._scale /\ m \in DOMAIN self'._scale)
       => IF (m - 1) \in D
          THEN RatLess(self'._scale[m], self._scale[m])
          ELSE self'._scale[m] = self._scale[m]

\* the dropped set of the stage a step of the loop has run
StageDropped ==
    IF RatLess(Zero, params.dropout_rate) /\ frame.i < Len(self._scale) - 1
    THEN Dropped(frame'.draws[Len(frame'.draws)].dr)
    ELSE {}

\* C15: every entry of the dropout scale vector lies in (0, 1]; within one
\* model (a fit and its warm-start extensions) the scale of a fitted stage
\* never increases, and it decreases strictly each time the stage is in
\* the dropped set.
C15_ScaleMonotone ==
    [][/\ ScaleInRange(self')
       /\ (pc = "_fit" /\ pc' = "_fit" /\ hasattr(self, "_scale"))
          => ScaleStep(frame.i + 1, StageDropped)
       /\ (pc = "_fit" /\ pc' = "idle" /\ hasattr(self, "_scale"))
          => ScaleStep(Len(self.estimators_), {})
       /\ (pc = "idle" /\ params.warm_start
             /\ hasattr(self, "_scale") /\ hasattr(self', "_scale"))
          => \E D \in {{}} \cup {Dropped(dr) : dr \in FitDraws(params, self)} :
                ScaleStep(Len(self.estimators_), D)]_vars

\* a fit with dropout has completed and a stage of it has been dropped
C15_Witness ==
    /\ pc = "idle"
    /\ last.op = "fit"
    /\ last.err = "ok"
    /\ hasattr(self, "_scale")
    /\ RatLess(Zero, params.dropout_rate)
    /\ AllStagesFitted(self)
    /\ Len(self._scale) = MaxEstimators
    /\ RatLess(self._scale[1], One)

\* the number of values the generator yields in the stage a step of the
\* loop has run: one for the mask, one or two for the dropout draw
StageDrawn ==
    (IF RatLess(params.subsample, One) THEN 1 ELSE 0)
    + (IF RatLess(Zero, params.dropout_rate) /\ frame.i < Len(self._scale) - 1
       THEN _sample_binomial_plus_one(frame'.draws[Len(frame'.draws)].dr).drawn
       ELSE 0)

\* C16: the generator is created when fit starts from the unfit state; a
\* warm-start fit of a fitted model keeps it, and every step advances it by
\* exactly the values drawn for the mask and the dropout of that step.
C16_GeneratorPersists ==
    [][/\ (pc = "idle" /\ last'.op \in {"fit", "_fit"} /\ params.warm_start
             /\ _is_fitted(self) /\ hasattr(self, "_rng"))
          => /\ hasattr(self', "_rng")
             /\ \E k \in {0} \cup {_sample_binomial_plus_one(dr).drawn :
                                     dr \in FitDraws(params, self)} :
                   self'._rng = self._rng + k
       /\ (pc = "idle" /\ pc' = "_fit"
             /\ ~_is_fitted(clear_unless_warm(params, self)))
          => hasattr(self', "_rng") /\ self'._rng = check_random_state
       /\ (pc = "_fit" /\ pc' = "_fit")
          => hasattr(self', "_rng") /\ self'._rng = self._rng + StageDrawn
       /\ (pc = "_fit" /\ pc' = "idle")
          => hasattr(self', "_rng") /\ self'._rng = self._rng]_vars

\* a warm-start extension is running a stage on a generator that yielded
\* values in earlier calls
C16_Witness ==
    /\ pc = "_fit"
    /\ params.warm_start
    /\ frame.begin_at_stage > 0
    /\ frame.i > frame.begin_at_stage
    /\ self._rng > 0

\* ---------------------------------------------------------------- metrics
\* (src/sksurv/metrics.py)  The arguments of a metric call are the record
\*   event_indicator, event_time, estimate : the three arrays, as sequences
\*   event_dtype    : the dtype of event_indicator ("bool" or "int64")
\*   estimate_ndim  : the number of dimensions of estimate
\*   tied_tol       : the tolerance, in the unit of the risk scores
\* survival_test of the IPCW-based metrics is the structured array of
\* event_indicator and event_time.
MaxMetricSamples == 3

TimeValues == 1..3

RiskValues == 0..2

TolValues == {0, 1}

SeqsOfLen(S, n) == [1..n -> S]

MetricCall(e, dt, t, est, nd, tol) ==
    [event_indicator |-> e, event_dtype |-> dt, event_time |-> t,
     estimate |-> est, estimate_ndim |-> nd, tied_tol |-> tol]

\* the documented scenario: times 5, 5, 8, 12 (as ranks), the first sample
\* at time 5 an event, the second censored, with a constant predictor
ExampleCall ==
    MetricCall(<<TRUE, FALSE, TRUE, TRUE>>, "bool", <<1, 1, 2, 3>>,
               <<0, 0, 0, 0>>, 1, 0)

\* arrays of any lengths up to two, any dtype and rank
MalformedCalls ==
    {MetricCall(e, dt, [k \in 1..nt |-> k], [k \in 1..ne |-> 0], nd, 0) :
       e \in UNION {SeqsOfLen(BOOLEAN, n) : n \in 0..2},
       dt \in {"bool", "int64"}, nt \in 0..2, ne \in 0..2, nd \in {1, 2}}

\* sklearn.utils.check_array(a, ensure_2d=False): at least one sample
check_array(a) == IF Len(a) < 1 THEN "ValueError_empty_array" ELSE "ok"

\* sklearn.utils.check_consistent_length(*arrays)
check_consistent_length(lengths) ==
    IF Cardinality(lengths) > 1 THEN "ValueError_inconsistent_length" ELSE "ok"

\* the first error of a sequence of checks, "ok" when there is none
RECURSIVE FirstError(_)
FirstError(checks) ==
    IF checks = <<>> THEN "ok"
    ELSE IF Head(checks) # "ok" THEN Head(checks)
    ELSE FirstError(Tail(checks))

\* _check_estimate(estimate, test_time)
_check_estimate(c) ==
    FirstError(<<check_array(c.estimate),
                 IF c.estimate_ndim # 1 THEN "ValueError_ndim" ELSE "ok",
                 check_consistent_length({Len(c.event_time), Len(c.estimate)})>>)

\* _check_inputs(event_indicator, event_time, estimate)
_check_inputs(c) ==
    FirstError(<<check_consistent_length({Len(c.event_indicator),
                                          Len(c.event_time), Len(c.estimate)}),
                 check_array(c.event_indicator),
                 check_array(c.event_time),
                 _check_estimate(c),
                 IF c.event_dtype # "bool" THEN "ValueError_dtype" ELSE "ok",
                 IF Len(c.event_time) < 2 THEN "ValueError_min_samples" ELSE "ok",
                 IF \A k \in 1..Len(c.event_indicator) : ~c.event_indicator[k]
                 THEN "ValueError_all_censored" ELSE "ok">>)

\* numpy.argsort(event_time): the permutations that put the times in
\* ascending order; the order among equal times is the sorting algorithm's
argsort(t) ==
    {o \in [1..Len(t) -> 1..Len(t)] :
       /\ \A a, b \in 1..Len(t) : a # b => o[a] # o[b]
       /\ \A a, b \in 1..Len(t) : a < b => t[o[a]] <= t[o[b]]}

\* lines 67-68: the first position after the samples at time time_i
RECURSIVE group_end(_, _, _, _)
group_end(event_time, order, time_i, end) ==
    IF end <= Len(event_time) /\ event_time[order[end]] = time_i
    THEN group_end(event_time, order, time_i, end + 1)
    ELSE end

\* the loop of _get_comparable from position i (positions count from 1)
RECURSIVE get_comparable_from(_, _, _, _, _, _)
get_comparable_from(event_indicator, event_time, order, i, comparable, tied_time) ==
    IF ~(i < Len(event_time))
    THEN [comparable |-> comparable, tied_time |-> tied_time]
    ELSE LET end == group_end(event_time, order, event_time[order[i]], i + 1)
             censored_at_same_time ==
                 {k \in i..(end - 1) : ~event_indicator[order[k]]}
             events == {j \in i..(end - 1) : event_indicator[order[j]]}
             mask == (end..Len(event_time)) \cup censored_at_same_time
         IN  get_comparable_from(event_indicator, event_time, order, end,
                 [j \in events |-> mask] @@ comparable,
                 tied_time + Cardinality(events) * Cardinality(censored_at_same_time))

\* _get_comparable with tied_time counting the pairs of events at the same
\* time, which are not entered into comparable
_get_comparable_event_ties(event_indicator, event_time, order) ==
    LET r == get_comparable_from(event_indicator, event_time, order, 1, <<>>, 0)
        n == Len(event_time)
    IN  [r EXCEPT !.tied_time =
           Cardinality({q \in (1..n) \X (1..n) :
                          /\ q[1] < q[2]
                          /\ event_indicator[q[1]] /\ event_indicator[q[2]]
                          /\ event_time[q[1]] = event_time[q[2]]})]

\* _get_comparable(event_indicator, event_time, order)
_get_comparable(event_indicator, event_time, order) ==
    get_comparable_from(event_indicator, event_time, order, 1, <<>>, 0)

RECURSIVE SumOver(_, _)
SumOver(f, S) ==
    IF S = {} THEN 0
    ELSE LET x == CHOOSE x \in S : TRUE IN f[x] + SumOver(f, S \ {x})

Abs(x) == IF x < 0 THEN -x ELSE x

\* numpy.ones_like(estimate)
ones_like(estimate) == [k \in 1..Len(estimate) |-> 1]

\* _estimate_concordance_index with line 113 adding w_i * n_ties
_estimate_concordance_index_whole_ties(event_indicator, event_time, estimate, weights, tied_tol, order) ==
    LET c == _get_comparable(event_indicator, event_time, order)
        comparable == c.comparable
        inds == DOMAIN comparable
        est_i(ind) == estimate[order[ind]]
        ties(ind) == {k \in comparable[ind] :
                        Abs(estimate[order[k]] - est_i(ind)) <= tied_tol}
        con(ind) == {k \in comparable[ind] : estimate[order[k]] < est_i(ind)}
        n_ties == [ind \in inds |-> Cardinality(ties(ind))]
        n_con == [ind \in inds |-> Cardinality(con(ind) \ ties(ind))]
        size == [ind \in inds |-> Cardinality(comparable[ind])]
        numerator2 == SumOver([ind \in inds |->
                          weights[order[ind]] * (2 * n_con[ind] + 2 * n_ties[ind])], inds)
        denominator == SumOver([ind \in inds |->
                          weights[order[ind]] * size[ind]], inds)
        counts == [concordant |-> SumOver(n_con, inds),
                   discordant |-> SumOver([ind \in inds |->
                                     size[ind] - n_con[ind] - n_ties[ind]], inds),
                   tied_risk  |-> SumOver(n_ties, inds),
                   tied_time  |-> c.tied_time]
    IN  IF inds = {} THEN [val |-> NoVal, err |-> "ZeroDivisionError"]
        ELSE [val |-> [cindex |-> IF denominator = 0 THEN NanScore
                                  ELSE Rat(numerator2, 2 * denominator)] @@ counts,
              err |-> "ok"]

\* _estimate_concordance_index(event_indicator, event_time, estimate,
\* weights, tied_tol), with the result of numpy.argsort(event_time).  The
\* numerator is kept in halves.  With no entry in comparable the division of
\* line 119 is 0.0 / 0.0 of Python floats; with entries whose masks are all
\* empty it is the same division of numpy floats, which yields nan.
_estimate_concordance_index(event_indicator, event_time, estimate, weights, tied_tol, order) ==
    LET c == _get_comparable(event_indicator, event_time, order)
        comparable == c.comparable
        inds == DOMAIN comparable
        est_i(ind) == estimate[order[ind]]
        ties(ind) == {k \in comparable[ind] :
                        Abs(estimate[order[k]] - est_i(ind)) <= tied_tol}
        con(ind) == {k \in comparable[ind] : estimate[order[k]] < est_i(ind)}
        n_ties == [ind \in inds |-> Cardinality(ties(ind))]
        n_con == [ind \in inds |-> Cardinality(con(ind) \ ties(ind))]
        size == [ind \in inds |-> Cardinality(comparable[ind])]
        numerator2 == SumOver([ind \in inds |->
                          weights[order[ind]] * (2 * n_con[ind] + n_ties[ind])], inds)
        denominator == SumOver([ind \in inds |->
                          weights[order[ind]] * size[ind]], inds)
        counts == [concordant |-> SumOver(n_con, inds),
                   discordant |-> SumOver([ind \in inds |->
                                     size[ind] - n_con[ind] - n_ties[ind]], inds),
                   tied_risk  |-> SumOver(n_ties, inds),
                   tied_time  |-> c.tied_time]
    IN  IF inds = {} THEN [val |-> NoVal, err |-> "ZeroDivisionError"]
        ELSE [val |-> [cindex |-> IF denominator = 0 THEN NanScore
                                  ELSE Rat(numerator2, 2 * denominator)] @@ counts,
              err |-> "ok"]

\* concordance_index_censored(event_indicator, event_time, estimate, tied_tol)
concordance_index_censored(c, order) ==
    IF _check_inputs(c) # "ok" THEN [val |-> NoVal, err |-> _check_inputs(c)]
    ELSE _estimate_concordance_index(c.event_indicator, c.event_time,
             c.estimate, ones_like(c.estimate), c.tied_tol, order)

\* check_y_survival(survival_test) of sksurv.util: the event indicator and
\* the times of a structured array, validated
check_y_survival(c) ==
    FirstError(<<IF c.event_dtype # "bool" THEN "ValueError_dtype" ELSE "ok",
                 IF Len(c.event_time) < 2 THEN "ValueError_min_samples" ELSE "ok",
                 IF \A k \in 1..Len(c.event_indicator) : ~c.event_indicator[k]
                 THEN "ValueError_all_censored" ELSE "ok">>)

\* a number computed with the weights of CensoringDistributionEstimator
Weighted(name, c) == [k |-> name, of |-> c]

\* CensoringDistributionEstimator.predict_ipcw for sample k of the test
\* data: the inverse of the censoring survival function before the time of
\* an event, 0 for a censored sample
predict_ipcw(c, k) ==
    IF c.event_indicator[k] THEN [k |-> "ipcw", time |-> c.event_time[k]] ELSE 0

\* lines 298-308 and 119: the index computed from the test arrays with the
\* weights ipcw squared
cindex_ipcw(c, ipcw) ==
    Weighted("cindex_ipcw",
             [event_indicator |-> c.event_indicator, event_time |-> c.event_time,
              estimate |-> c.estimate, tied_tol |-> c.tied_tol, ipcw |-> ipcw])

\* concordance_index_ipcw(survival_train, survival_test, estimate), tau=None:
\* the counts are those of _estimate_concordance_index, the index is a
\* weighted ratio
concordance_index_ipcw(c, order) ==
    LET e == FirstError(<<check_y_survival(c), _check_estimate(c)>>)
        r == _estimate_concordance_index(c.event_indicator, c.event_time,
                 c.estimate, ones_like(c.estimate), c.tied_tol, order)
        ipcw == [k \in 1..Len(c.event_time) |-> predict_ipcw(c, k)]
    IN  IF e # "ok" THEN [val |-> NoVal, err |-> e]
        ELSE IF r.err # "ok" THEN r
        ELSE [val |-> [r.val EXCEPT !.cindex = cindex_ipcw(c, ipcw)],
              err |-> "ok"]

\* the positions of the test samples with a time before tau, in order
RECURSIVE Before(_, _, _)
Before(t, tau, k) ==
    IF k > Len(t) THEN <<>>
    ELSE (IF t[k] < tau THEN <<k>> ELSE <<>>) \o Before(t, tau, k + 1)

\* the arguments with every sample at or after tau removed from the arrays
Truncated(c, tau) ==
    LET keep == Before(c.event_time, tau, 1)
    IN  [c EXCEPT !.event_indicator = [k \in 1..Len(keep) |-> c.event_indicator[keep[k]]],
                  !.event_time = [k \in 1..Len(keep) |-> c.event_time[keep[k]]],
                  !.estimate = [k \in 1..Len(keep) |-> c.estimate[keep[k]]]]

\* concordance_index_ipcw with the test data and the estimate cut at tau
\* before anything else
concordance_index_ipcw_tau_truncating(c, tau, order) ==
    LET e == FirstError(<<check_y_survival(c), _check_estimate(c)>>)
    IN  IF e # "ok" THEN [val |-> NoVal, err |-> e]
        ELSE concordance_index_ipcw(Truncated(c, tau),
                 CHOOSE o \in argsort(Truncated(c, tau).event_time) : TRUE)

\* concordance_index_ipcw(survival_train, survival_test, estimate, tau):
\* lines 292-294 cut survival_test, which only predict_ipcw reads; test_event,
\* test_time and estimate keep every sample, those at or after tau with
\* weight 0 (lines 303-306)
concordance_index_ipcw_tau(c, tau, order) ==
    LET e == FirstError(<<check_y_survival(c), _check_estimate(c)>>)
        r == _estimate_concordance_index(c.event_indicator, c.event_time,
                 c.estimate, ones_like(c.estimate), c.tied_tol, order)
        ipcw == [k \in 1..Len(c.event_time) |->
                   IF c.event_time[k] < tau THEN predict_ipcw(c, k) ELSE 0]
    IN  IF e # "ok" THEN [val |-> NoVal, err |-> e]
        ELSE IF r.err # "ok" THEN r
        ELSE [val |-> [r.val EXCEPT !.cindex = cindex_ipcw(c, ipcw)],
              err |-> "ok"]

SeqMin(t) == CHOOSE x \in {t[k] : k \in 1..Len(t)} :
                 \A k \in 1..Len(t) : x <= t[k]

SeqMax(t) == CHOOSE x \in {t[k] : k \in 1..Len(t)} :
                 \A k \in 1..Len(t) : x >= t[k]

\* the values of the set S in ascending order
RECURSIVE SortedSeq(_)
SortedSeq(S) ==
    IF S = {} THEN <<>>
    ELSE LET m == CHOOSE x \in S : \A y \in S : x <= y
         IN  <<m>> \o SortedSeq(S \ {m})

\* numpy.unique(times), line 415
np_unique(times) == SortedSeq({times[k] : k \in 1..Len(times)})

RatSub(x, y) == Rat(x[1] * y[2] - y[1] * x[2], x[2] * y[2])

\* SurvivalFunctionEstimator().fit(survival_test).predict_proba at time t:
\* the Kaplan-Meier estimate, the product over the event times u <= t of
\* 1 - (events at u) / (samples with time >= u)
RECURSIVE KaplanMeier(_, _)
KaplanMeier(c, us) ==
    IF us = {} THEN One
    ELSE LET u == CHOOSE x \in us : TRUE
             n == 1..Len(c.event_time)
             at_risk == Cardinality({k \in n : c.event_time[k] >= u})
             events == Cardinality({k \in n : c.event_time[k] = u
                                                 /\ c.event_indicator[k]})
         IN  RatMul(Rat(at_risk - events, at_risk), KaplanMeier(c, us \ {u}))

predict_proba(c, t) ==
    KaplanMeier(c, {c.event_time[k] : k \in {j \in 1..Len(c.event_time) :
                       c.event_indicator[j] /\ c.event_time[j] <= t}})

\* line 417 with > in place of >=
times_outside_follow_up_inclusive(c, times) ==
    \/ SeqMax(times) > SeqMax(c.event_time)
    \/ SeqMin(times) < SeqMin(c.event_time)

\* the condition of line 417
times_outside_follow_up(c, times) ==
    \/ SeqMax(times) >= SeqMax(c.event_time)
    \/ SeqMin(times) < SeqMin(c.event_time)

\* trapz(sens, fpr) of the two ROC points (0, 0) and (1, 1)
HalfScore == [k |-> "half"]

\* lines 435-461: the area under the ROC curve at time t.  The sensitivity
\* is divided by the summed weights of the cases and the false positive
\* rate by the number of controls; without cases or without controls the
\* division is by zero and the score is nan.  est_prev starts at infinity
\* and is replaced only when an estimate differs from it by more than
\* tied_tol: when every estimate is within tied_tol of the largest one, the
\* curve has the single threshold of line 446 and the final point of lines
\* 456-457.
auc_score(c, t) ==
    LET n == 1..Len(c.event_time)
        is_case == {k \in n : c.event_time[k] <= t /\ c.event_indicator[k]}
        is_control == {k \in n : c.event_time[k] > t}
        one_threshold == \A k \in n :
                            Abs(c.estimate[k] - SeqMax(c.estimate)) <= c.tied_tol
    IN  IF is_case = {} \/ Cardinality(is_control) = 0 THEN NanScore
        ELSE IF one_threshold THEN HalfScore
        ELSE Weighted("auc", [event_indicator |-> c.event_indicator,
                              event_time |-> c.event_time,
                              estimate |-> c.estimate, tied_tol |-> c.tied_tol,
                              t |-> t])

\* lines 466-472: the scores summed against the decrease of the survival
\* function, over 1 - S at the last time
integral_mean_auc(c, times, scores) ==
    LET s_times == [k \in 1..Len(times) |-> predict_proba(c, times[k])]
        d == [k \in 1..Len(times) |->
                RatSub(IF k = 1 THEN One ELSE s_times[k - 1], s_times[k])]
        normalizer == RatSub(One, s_times[Len(times)])
    IN  IF normalizer = Zero THEN NanScore
        ELSE [k |-> "mean",
              terms |-> [j \in 1..Len(times) |-> [score |-> scores[j], d |-> d[j]]],
              normalizer |-> normalizer]

\* lines 463-472 without the branch of line 463
mean_auc_always_integral(c, times, scores) == integral_mean_auc(c, times, scores)

\* lines 463-472
mean_auc(c, times, scores) ==
    IF Len(times) = 1 THEN scores[1]
    ELSE integral_mean_auc(c, times, scores)

\* cumulative_dynamic_auc(survival_train, survival_test, estimate, times)
cumulative_dynamic_auc(c, times_arg) ==
    LET e == FirstError(<<check_y_survival(c), _check_estimate(c),
                          check_array(times_arg)>>)
        times == np_unique(times_arg)
        scores == [k \in 1..Len(times) |-> auc_score(c, times[k])]
    IN  IF e # "ok" THEN [val |-> NoVal, err |-> e]
        ELSE IF times_outside_follow_up(c, times)
        THEN [val |-> NoVal, err |-> "ValueError_times"]
        ELSE [val |-> [auc |-> scores, mean_auc |-> mean_auc(c, times, scores)],
              err |-> "ok"]

\* brier_score(survival_train, survival_test, estimate, times): line 551
\* reads test_time, a name bound neither in the function nor in the module
brier_score(c, times) == [val |-> NoVal, err |-> "NameError"]

\* integrated_brier_score(survival_train, survival_test, estimate, times):
\* the scores of brier_score (line 680) integrated over the times and
\* divided by t_max (lines 685-691)
integrated_brier_score(c, times) ==
    LET r == brier_score(c, times)
    IN  IF r.err # "ok" THEN r
        ELSE [val |-> Weighted("trapz", [scores |-> r.val, times |-> times]),
              err |-> "ok"]

\* the arguments with an estimate of survival probability 1/2 for every
\* sample at every time
HalfEverywhere(c) ==
    [c EXCEPT !.estimate = [k \in 1..Len(c.event_time) |-> <<1, 2>>],
              !.estimate_ndim = 2]

\* the calls whose event indicator and times can be one structured array,
\* with a constant estimate
SurvivalTestCalls(c) ==
    /\ Len(c.event_indicator) = Len(c.event_time)
    /\ c.tied_tol = 0
    /\ \A k \in 1..Len(c.estimate) : c.estimate[k] = 0

DefaultParams ==
    [loss |-> "coxph", learning_rate |-> 1, n_estimators |-> 1,
     subsample |-> One, warm_start |-> FALSE, dropout_rate |-> Zero]

\* a metric function is about to be called with the arguments last.X: the
\* arrays of MalformedCalls, the documented scenario, or three
\* one-dimensional arrays of one length with a boolean event_indicator
InitMetric ==
    /\ params = DefaultParams
    /\ self = NewEstimator
    /\ last \in [op : {"arguments"}, err : {"ok"}, val : {NoVal},
                 X : MalformedCalls \cup {ExampleCall}]
       \/ \E n \in 0..MaxMetricSamples :
            \E e \in SeqsOfLen(BOOLEAN, n), t \in SeqsOfLen(TimeValues, n),
               est \in SeqsOfLen(RiskValues, n), tol \in TolValues :
               last = Called("arguments", "ok",
                             MetricCall(e, "bool", t, est, 1, tol), NoVal)
    /\ pc = "metric"
    /\ frame = NoFrame

Returned(op, r) ==
    /\ last' = Called(op, r.err, last.X, r.val)
    /\ pc' = "idle"
    /\ UNCHANGED <<params, self, frame>>

ConcordanceIndexCensored ==
    /\ pc = "metric"
    /\ \E order \in argsort(last.X.event_time) :
         \E r \in {concordance_index_censored(last.X, order)} :
            Returned("concordance_index_censored", r)

ConcordanceIndexIpcw ==
    /\ pc = "metric"
    /\ SurvivalTestCalls(last.X)
    /\ \E order \in argsort(last.X.event_time) :
         \E r \in {concordance_index_ipcw(last.X, order)} :
            Returned("concordance_index_ipcw", r)

\* the call with a truncation time, which X records with the arguments
ConcordanceIndexIpcwTau ==
    /\ pc = "metric"
    /\ SurvivalTestCalls(last.X)
    /\ \E tau \in TimeValues, order \in argsort(last.X.event_time) :
         \E r \in {concordance_index_ipcw_tau(last.X, tau, order)} :
            /\ last' = Called("concordance_index_ipcw", r.err,
                              [tau |-> tau] @@ last.X, r.val)
            /\ pc' = "idle"
            /\ UNCHANGED <<params, self, frame>>

\* the times argument: one or two query times, in any order
QueryTimes == UNION {SeqsOfLen(0..4, n) : n \in 1..2}

\* the call with its times argument, which X records with the arguments
CumulativeDynamicAuc ==
    /\ pc = "metric"
    /\ SurvivalTestCalls(last.X)
    /\ \E times \in QueryTimes :
         \E r \in {cumulative_dynamic_auc(last.X, times)} :
            /\ last' = Called("cumulative_dynamic_auc", r.err,
                              [times |-> times] @@ last.X, r.val)
            /\ pc' = "idle"
            /\ UNCHANGED <<params, self, frame>>

BrierScore ==
    /\ pc = "metric"
    /\ SurvivalTestCalls(last.X)
    /\ \E r \in {brier_score(last.X, <<1>>)} : Returned("brier_score", r)

\* the integrated score of the model that predicts 1/2 everywhere
IntegratedBrierScore ==
    /\ pc = "metric"
    /\ SurvivalTestCalls(last.X)
    /\ \E times \in QueryTimes :
         \E r \in {integrated_brier_score(HalfEverywhere(last.X), times)} :
            /\ last' = Called("integrated_brier_score", r.err,
                              [times |-> times] @@ HalfEverywhere(last.X), r.val)
            /\ pc' = "idle"
            /\ UNCHANGED <<params, self, frame>>

NextMetric ==
    \/ ConcordanceIndexCensored
    \/ ConcordanceIndexIpcw
    \/ ConcordanceIndexIpcwTau
    \/ CumulativeDynamicAuc
    \/ BrierScore
    \/ IntegratedBrierScore

\* one call of a metric function on the arguments drawn by InitMetric
SpecMetric == InitMetric /\ [][NextMetric]_vars

IsCall(op) == pc = "idle" /\ last.op = op

\* at least two samples and at least one event, in well-formed arrays
ValidSurvivalData(c) ==
    /\ c.event_dtype = "bool"
    /\ c.estimate_ndim = 1
    /\ Len(c.event_indicator) = Len(c.event_time)
    /\ Len(c.estimate) = Len(c.event_time)
    /\ Len(c.event_time) >= 2
    /\ \E k \in 1..Len(c.event_indicator) : c.event_indicator[k]

\* the comparable pairs <<a, b>> of samples: a had an event, and b has a
\* later time or was censored at the time of a
ComparablePairs(c) ==
    {p \in (1..Len(c.event_time)) \X (1..Len(c.event_time)) :
       /\ c.event_indicator[p[1]]
       /\ \/ c.event_time[p[1]] < c.event_time[p[2]]
          \/ /\ c.event_time[p[1]] = c.event_time[p[2]]
             /\ ~c.event_indicator[p[2]]}

InUnitInterval(x) == x \in Nat \X Nat /\ x[2] > 0 /\ x[1] <= x[2]

\* C17: on arrays of at least two samples with at least one event,
\* concordance_index_censored returns an index in [0, 1] and counts with
\* concordant + discordant + tied_risk = the number of comparable pairs.
C17_CindexInRange ==
    (IsCall("concordance_index_censored") /\ ValidSurvivalData(last.X))
    => /\ last.err = "ok"
       /\ InUnitInterval(last.val.cindex)
       /\ last.val.concordant + last.val.discordant + last.val.tied_risk
            = Cardinality(ComparablePairs(last.X))

DistinctTimes(c) ==
    \A a, b \in 1..Len(c.event_time) :
       a # b => c.event_time[a] # c.event_time[b]

\* the risk falls (Sign = 1) or rises (Sign = -1) with the time, by more
\* than the tolerance
RiskMonotone(c, Sign) ==
    \A a, b \in 1..Len(c.event_time) :
       c.event_time[a] < c.event_time[b]
       => Sign * (c.estimate[a] - c.estimate[b]) > c.tied_tol

\* C18: with distinct times and a risk strictly decreasing in time
\* concordance_index_censored returns 1.0 and discordant = tied_risk = 0;
\* with a risk strictly increasing in time it returns 0.0 and
\* concordant = tied_risk = 0.
C18_PerfectRanking ==
    (IsCall("concordance_index_censored") /\ ValidSurvivalData(last.X)
       /\ DistinctTimes(last.X))
    => /\ RiskMonotone(last.X, 1)
          => /\ last.err = "ok"
             /\ last.val.cindex = One
             /\ last.val.discordant = 0 /\ last.val.tied_risk = 0
       /\ RiskMonotone(last.X, -1)
          => /\ last.err = "ok"
             /\ last.val.cindex = Zero
             /\ last.val.concordant = 0 /\ last.val.tied_risk = 0

TiedPairs(c) ==
    {p \in ComparablePairs(c) :
       Abs(c.estimate[p[1]] - c.estimate[p[2]]) <= c.tied_tol}

ConcordantPairs(c) ==
    {p \in ComparablePairs(c) \ TiedPairs(c) :
       c.estimate[p[2]] < c.estimate[p[1]]}

AllTied(c) == TiedPairs(c) = ComparablePairs(c)

\* C19: when there is a comparable pair, a pair with risk scores within
\* tied_tol counts one half: cindex = (concordant + tied_risk / 2) / pairs;
\* with all risk scores within tied_tol of each other the index is 0.5,
\* concordant = discordant = 0 and tied_risk is the number of comparable
\* pairs.
C19_TiesCountHalf ==
    (IsCall("concordance_index_censored") /\ ValidSurvivalData(last.X)
       /\ ComparablePairs(last.X) # {})
    => /\ last.err = "ok"
       /\ last.val.tied_risk = Cardinality(TiedPairs(last.X))
       /\ last.val.concordant = Cardinality(ConcordantPairs(last.X))
       /\ last.val.cindex
            = Rat(2 * Cardinality(ConcordantPairs(last.X))
                    + Cardinality(TiedPairs(last.X)),
                  2 * Cardinality(ComparablePairs(last.X)))
       /\ AllTied(last.X)
          => /\ last.val.cindex = <<1, 2>>
             /\ last.val.concordant = 0 /\ last.val.discordant = 0
             /\ last.val.tied_risk = Cardinality(ComparablePairs(last.X))

\* the documented scenario: four comparable pairs, all of them tied
C19_Witness ==
    /\ IsCall("concordance_index_censored")
    /\ last.X = ExampleCall
    /\ last.err = "ok"
    /\ last.val.cindex = <<1, 2>>
    /\ last.val.tied_risk = 4

MetricNames ==
    {"concordance_index_censored", "concordance_index_ipcw",
     "cumulative_dynamic_auc", "brier_score"}

\* what a validation error is about
ErrorKind(e) ==
    CASE e = "ValueError_inconsistent_length" -> "lengths"
      [] e = "ValueError_ndim" -> "rank"
      [] e = "ValueError_dtype" -> "dtype"
      [] e \in {"ValueError_min_samples", "ValueError_empty_array"} -> "samples"
      [] e = "ValueError_all_censored" -> "censored"
      [] OTHER -> "none"

\* the first defect of the arguments in the order lengths, estimate rank,
\* boolean dtype, sample count, all-censored
FirstDefect(c) ==
    ErrorKind(FirstError(<<
       check_consistent_length({Len(c.event_indicator), Len(c.event_time),
                                Len(c.estimate)}),
       IF c.estimate_ndim # 1 THEN "ValueError_ndim" ELSE "ok",
       IF c.event_dtype # "bool" THEN "ValueError_dtype" ELSE "ok",
       IF Len(c.event_time) < 2 THEN "ValueError_min_samples" ELSE "ok",
       IF \A k \in 1..Len(c.event_indicator) : ~c.event_indicator[k]
       THEN "ValueError_all_censored" ELSE "ok">>))

\* C20: each of the four metric functions raises a validation error on test
\* data with fewer than two samples or without an event, and
\* concordance_index_censored reports the first defect in the order
\* lengths, estimate rank, boolean dtype, sample count, all-censored.
C20_MetricsValidate ==
    /\ (pc = "idle" /\ last.op \in MetricNames
          /\ \/ Len(last.X.event_time) < 2
             \/ \A k \in 1..Len(last.X.event_indicator) :
                   ~last.X.event_indicator[k])
       => ErrorKind(last.err) # "none"
    /\ (IsCall("concordance_index_censored") /\ FirstDefect(last.X) # "none")
       => ErrorKind(last.err) = FirstDefect(last.X)

\* C21: on arrays of at least two samples with an event and no comparable
\* pair, the concordance index functions raise an error; none returns a
\* result.
C21_NoComparableIsError ==
    (pc = "idle"
       /\ last.op \in {"concordance_index_censored", "concordance_index_ipcw"}
       /\ ValidSurvivalData(last.X)
       /\ ComparablePairs(last.X) = {})
    => last.err # "ok"

Counts(v) == <<v.concordant, v.discordant, v.tied_risk, v.tied_time>>

IsTauCall == IsCall("concordance_index_ipcw") /\ "tau" \in DOMAIN last.X

\* the arguments of a call with tau, without tau
WithoutTau(x) == [f \in DOMAIN x \ {"tau"} |-> x[f]]

AnyOrder(c) == CHOOSE o \in argsort(c.event_time) : TRUE

WithoutTimes(x) == [f \in DOMAIN x \ {"times"} |-> x[f]]

IsAucResult == IsCall("cumulative_dynamic_auc") /\ last.err = "ok"

DistinctQueryTimes == {last.X.times[k] : k \in 1..Len(last.X.times)}

\* C23: with one distinct value in times, cumulative_dynamic_auc returns
\* mean_auc equal to auc[0]; no value of the survival curve enters it.
C23_SingleTimeMean ==
    (IsAucResult /\ Cardinality(DistinctQueryTimes) = 1)
    => /\ Len(last.val.auc) = 1
       /\ last.val.mean_auc = last.val.auc[1]
       /\ last.val.mean_auc = auc_score(WithoutTimes(last.X),
                                        CHOOSE t \in DistinctQueryTimes : TRUE)

\* a call at one time point returned a score
C23_Witness ==
    /\ IsAucResult
    /\ Len(last.X.times) = 1
    /\ last.val.auc[1] # NanScore
    /\ last.val.mean_auc = last.val.auc[1]

\* the survival function of the test data at the k-th distinct query time
SurvAt(k) == predict_proba(WithoutTimes(last.X), np_unique(last.X.times)[k])

\* C24: for two or more distinct query times over which the survival
\* function drops, mean_auc is the sum of AUC(t_j) times the decrease of S
\* attributed to t_j, divided by S(t_1) - S(t_k).
C24_MeanAucNormalizer ==
    (IsAucResult /\ Cardinality(DistinctQueryTimes) >= 2
       /\ SurvAt(1) # SurvAt(Cardinality(DistinctQueryTimes)))
    => /\ last.val.mean_auc # NanScore
       /\ \A j \in 1..Len(last.val.auc) :
             last.val.mean_auc.terms[j].score = last.val.auc[j]
       /\ last.val.mean_auc.normalizer
            = RatSub(SurvAt(1), SurvAt(Cardinality(DistinctQueryTimes)))

\* the test samples with a time after t
Controls(c, t) == {k \in 1..Len(c.event_time) : c.event_time[k] > t}

\* the test data, the estimate and the times argument pass lines 410-414
AucArgumentsChecked ==
    /\ IsCall("cumulative_dynamic_auc")
    /\ last.err \in {"ok", "ValueError_times"}

\* C25: cumulative_dynamic_auc raises ValueError and computes nothing unless
\* every query time t has min(test time) <= t < max(test time); every time
\* it evaluates has a control.
C25_TimesWithinFollowUp ==
    AucArgumentsChecked
    => /\ last.err = "ValueError_times"
          <=> \E t \in DistinctQueryTimes :
                 ~(SeqMin(last.X.event_time) <= t /\ t < SeqMax(last.X.event_time))
       /\ last.err = "ValueError_times" => last.val = NoVal
       /\ last.err = "ok"
          => \A t \in DistinctQueryTimes : Controls(last.X, t) # {}

\* a query at the largest test time, which has no control, was refused
C25_Witness ==
    /\ IsCall("cumulative_dynamic_auc")
    /\ last.err = "ValueError_times"
    /\ \A t \in DistinctQueryTimes :
          /\ SeqMin(last.X.event_time) <= t
          /\ t <= SeqMax(last.X.event_time)
    /\ \E t \in DistinctQueryTimes : Controls(last.X, t) = {}

\* C26: auc has one entry per entry of the times argument, and auc[k] is the
\* AUC at times[k], whatever the order of times and with repeated values.
C26_AucPerQueryTime ==
    IsAucResult
    => /\ Len(last.val.auc) = Len(last.X.times)
       /\ \A k \in 1..Len(last.X.times) :
             last.val.auc[k] = auc_score(WithoutTimes(last.X), last.X.times[k])

\* C27: integrated_brier_score of the model that predicts survival
\* probability 0.5 for every sample at every time returns 0.25.
C27_IntegratedBrierOfHalf ==
    (IsCall("integrated_brier_score")
       /\ Len(last.X.event_time) >= 2
       /\ \E k \in 1..Len(last.X.event_indicator) : last.X.event_indicator[k]
       /\ \A j \in 1..Len(last.X.estimate) : last.X.estimate[j] = <<1, 2>>)
    => last.err = "ok" /\ last.val = <<1, 4>>

\* C28: the regression estimator of a componentwise learner is fitted on
\* one column of X, the learner's own, and no other.
C28_FitOnOwnColumn ==
    (pc = "_fit" /\ self.regr.fitted)
    => \E c \in Columns(frame.X) : self.regr.cols = {c}

\* what the stage about to run computes, given the mask it draws
StageSelection(mask) ==
    _fit_stage_componentwise(frame.X,
        loss_gradient(self._loss, frame.X, frame.y_pred), mask)

LastDraw(f) == f.draws[Len(f.draws)]

\* C29: the learner a stage appends to the ensemble is the candidate that
\* was fitted for the feature with the smallest error, the lowest index on
\* ties, and carries that feature index.
C29_WinnerIsOwnCandidate ==
    [][(pc = "_fit" /\ pc' = "_fit")
       => LET st == StageSelection(LastDraw(frame').mask)
              e == self'.estimators_[frame.i + 1]
          IN  /\ st.best_component
                   = CHOOSE c \in Columns(frame.X) :
                        /\ \A b \in Columns(frame.X) : st.error[b] = st.error[c]
                        /\ \A b \in Columns(frame.X) : c <= b
              /\ e \notin {"regr", "None"}
              /\ e.component = st.best_component]_vars

\* the sum of squares of residuals - l_pred over the samples of weight w
WeightedSquaredError(residuals, l_pred, w) ==
    [res |-> residuals, pred |-> l_pred, w |-> w]

\* C30: with subsample < 1 every candidate of a stage is fitted with the
\* in-bag weights, and the error that decides the winner is the sum of
\* squares over the in-bag samples.
C30_SelectionInBag ==
    [][(pc = "_fit" /\ pc' = "_fit" /\ RatLess(params.subsample, One))
       => LET mask == LastDraw(frame').mask
              st == StageSelection(mask)
          IN  /\ st.regr.w = mask
              /\ \A c \in Columns(frame.X) :
                    st.error[c] = WeightedSquaredError(st.error[c].res,
                                                       st.error[c].pred, mask)]_vars

\* ---------------------------------------------- the base learner on its own
\* SpecLearner: one call of _ComponentwiseBaseLearner(component, regr).fit
\* on a regressor and arguments drawn in the initial state.
LearnerCall(regr, component, X, y, w) ==
    [regr |-> regr, component |-> component, X |-> X, y |-> y,
     sample_weight |-> w]

InitLearner ==
    /\ params = DefaultParams
    /\ self = NewEstimator
    /\ \E regr \in Regressors, X \in DataSets, loss \in LossNames :
         \E component \in Columns(X), w \in (SUBSET Samples(X)) \ {{}} :
            last = Called("arguments", "ok",
                          LearnerCall(regr, component, X,
                                      loss_gradient(loss, X, <<>>), w),
                          NoVal)
    /\ pc = "learner"
    /\ frame = NoFrame

BaseLearnerFit ==
    /\ pc = "learner"
    /\ \E r \in {_ComponentwiseBaseLearner_fit(
                    last.X.regr, last.X.component, last.X.X, last.X.y,
                    last.X.sample_weight)} :
          last' = Called("_ComponentwiseBaseLearner.fit", r.err, last.X,
                         [val |-> r.val, calls |-> r.calls])
    /\ pc' = "idle"
    /\ UNCHANGED <<params, self, frame>>

NextLearner == BaseLearnerFit

SpecLearner == InitLearner /\ [][NextLearner]_vars

IsLearnerCall == last.op = "_ComponentwiseBaseLearner.fit"

\* the base learner fitted twice, with and then without the weights, on the
\* same X and y, and the call ended as the fit without weights did
RetriedOnce ==
    LET c == last.X
    IN  /\ last.val.calls = <<FitCall(c.X, c.y, c.sample_weight),
                              FitCall(c.X, c.y, NoWeight)>>
        /\ last.err = IF c.regr.unweighted = "none" THEN "ok"
                      ELSE c.regr.unweighted
        /\ last.err = "ok" => last.val.val = regr_fit(c.regr, c.X, c.y, NoWeight).val

\* C31 as stated: whatever the weighted fit of the wrapped regressor raises,
\* the base learner fits once more without sample weights on the same data,
\* and only what that second fit raises reaches the caller.
C31_AnyExceptionRetried ==
    (IsLearnerCall /\ last.X.regr.weighted # "none") => RetriedOnce

\* C31 amended: when the weighted fit raises an instance of Exception, the
\* base learner fits once more without sample weights on the same data and
\* only what that second fit raises reaches the caller; an exception that
\* derives from BaseException only (KeyboardInterrupt) reaches the caller
\* at once, and no second fit is made.
C31_ExceptionRetried ==
    IsLearnerCall =>
        LET c == last.X
        IN  /\ IsException(c.regr.weighted) => RetriedOnce
            /\ (c.regr.weighted # "none" /\ ~IsException(c.regr.weighted)) =>
                  /\ last.err = c.regr.weighted
                  /\ last.val.calls = <<FitCall(c.X, c.y, c.sample_weight)>>

C31_Witness ==
    /\ IsLearnerCall
    /\ last.X.regr = [weighted |-> "TypeError", unweighted |-> "none"]
    /\ last.err = "ok"
    /\ Len(last.val.calls) = 2
    /\ last.val.val.w = NoWeight

\* one dropout update after stage i, as C32 describes it: D is the dropped
\* set, scale the scale vector before the update, s2 the estimator and
\* y_pred the cumulative prediction after it
DropoutUpdate(i, D, scale, s2, X, y_pred) ==
    LET n == Cardinality(D)
        kept == Sorted((0..i) \ D)
    IN  /\ D # {}
        /\ D \subseteq 0..i
        /\ DOMAIN s2._scale = DOMAIN scale
        /\ \A m \in DOMAIN scale :
              s2._scale[m] = IF (m - 1) \in D THEN RatMul(scale[m], Rat(n, n + 1))
                             ELSE IF m = i + 2 THEN Rat(1, n + 1)
                             ELSE scale[m]
        /\ Len(y_pred) = Len(kept)
        /\ \A j \in DOMAIN kept :
              y_pred[j] = Summand(params.learning_rate, s2._scale[kept[j] + 1],
                                  est_predict(s2, s2.estimators_[kept[j] + 1], X))

FloorOfShare(p, X) == (p.subsample[1] * X.n_samples) \div p.subsample[2]

\* C33: in every boosting stage run with subsample < 1 on at least two
\* samples the in-bag mask selects exactly max(1, floor(subsample *
\* n_samples)) samples, the samples the training score and the out-of-bag
\* score of the stage are computed on partition the samples, and neither
\* set is empty.
C33_InBagSize ==
    [][(pc = "_fit" /\ pc' = "_fit" /\ RatLess(params.subsample, One)
          /\ frame.X.n_samples >= 2)
       => LET mask == LastDraw(frame').mask
              inbag == self'.train_score_[frame.i + 1].idx
              oob == self'.oob_scores_[frame.i + 1].idx
          IN  /\ Cardinality(mask) = Max(1, FloorOfShare(params, frame.X))
              /\ inbag = mask
              /\ inbag \cup oob = Samples(frame.X)
              /\ inbag \cap oob = {}
              /\ inbag # {}
              /\ oob # {}]_vars

\* a stage has run on two samples with subsample = 1/3, where the floor is
\* 0 and the mask holds one sample
C33_Witness ==
    /\ pc = "_fit"
    /\ params.subsample = <<1, 3>>
    /\ frame.X.n_samples = 2
    /\ frame.i >= 1
    /\ Len(frame.draws) >= 1
    /\ Cardinality(LastDraw(frame).mask) = 1
    /\ self.oob_scores_[frame.i].idx # {}

\* the pairs of samples that _get_comparable enters into comparable, for
\* one result of argsort
EnteredPairs(c, order) ==
    LET g == _get_comparable(c.event_indicator, c.event_time, order).comparable
    IN  UNION {{<<order[j], order[k]>> : k \in g[j]} : j \in DOMAIN g}

\* the pairs of two events at the same time
SameTimeEventPairs(c) ==
    {q \in (1..Len(c.event_time)) \X (1..Len(c.event_time)) :
       /\ q[1] < q[2]
       /\ c.event_indicator[q[1]] /\ c.event_indicator[q[2]]
       /\ c.event_time[q[1]] = c.event_time[q[2]]}

\* the comparable pairs whose members share their time: an event and a
\* sample censored at the time of the event
SameTimeComparablePairs(c) ==
    {q \in ComparablePairs(c) : c.event_time[q[1]] = c.event_time[q[2]]}

\* the pairs entered are the comparable pairs, no pair starts at a censored
\* sample and no pair joins two events at the same time
PairsAsDescribed(c) ==
    \A order \in argsort(c.event_time) :
       /\ EnteredPairs(c, order) = ComparablePairs(c)
       /\ \A q \in EnteredPairs(c, order) :
             /\ c.event_indicator[q[1]]
             /\ {q, <<q[2], q[1]>>} \cap SameTimeEventPairs(c) = {}

\* C34 as stated: the comparable pairs are every (event i, sample j) with a
\* later time and every (event i, censored j) at the same time; no pair
\* starts at a censored sample, two events at the same time are not
\* comparable, and tied_time is the number of those pairs of events at the
\* same time.
C34_TiedTimeCountsEventPairs ==
    (IsCall("concordance_index_censored") /\ ValidSurvivalData(last.X))
    => /\ PairsAsDescribed(last.X)
       /\ last.err = "ok"
          => last.val.tied_time = Cardinality(SameTimeEventPairs(last.X))

\* C34 amended: the comparable pairs are as stated, and tied_time is the
\* number of comparable pairs whose members share their time, an event and
\* a sample censored at the time of the event; two events at the same time
\* are counted nowhere.
C34_TiedTimeCountsComparable ==
    (IsCall("concordance_index_censored") /\ ValidSurvivalData(last.X))
    => /\ PairsAsDescribed(last.X)
       /\ last.err = "ok"
          => last.val.tied_time = Cardinality(SameTimeComparablePairs(last.X))

\* two events and a censored sample at one time: tied_time is 2, the pair
\* of events is not counted
C34_Witness ==
    /\ IsCall("concordance_index_censored")
    /\ last.err = "ok"
    /\ SameTimeEventPairs(last.X) # {}
    /\ Cardinality(SameTimeComparablePairs(last.X)) = 2
    /\ last.val.tied_time = 2

\* the ensemble, the traces, the dropout scale vector and the generator
EnsembleAttrs ==
    {"estimators_", "train_score_", "oob_improvement_", "oob_scores_",
     "_scale", "_rng"}

\* the attributes of EnsembleAttrs exist in t exactly as in s, with the
\* same values, and the stages predict as they did
SameEnsemble(s, t) ==
    /\ \A a \in EnsembleAttrs : hasattr(s, a) = hasattr(t, a) /\ s[a] = t[a]
    /\ \A m \in DOMAIN s.estimators_ : StageFn(t, m) = StageFn(s, m)

\* fit is called with warm_start=True, valid hyperparameters and data, on a
\* fitted model whose ensemble has n_estimators stages
WarmFitOfSameSize ==
    /\ pc = "idle"
    /\ last'.op \in {"fit", "_fit"}
    /\ params.warm_start
    /\ ParamsValid(params)
    /\ DataValid(last'.X)
    /\ _is_fitted(self)
    /\ AllStagesFitted(self)
    /\ hasattr(self, "n_estimators_")
    /\ self.n_estimators_ = Len(self.estimators_)
    /\ params.n_estimators = Len(self.estimators_)
    /\ RatLess(Zero, params.dropout_rate) => hasattr(self, "_scale")

\* C36: a warm-start fit whose n_estimators equals the size of the ensemble
\* succeeds without running a boosting iteration, leaves estimators_, the
\* traces, the dropout scale vector and the generator as they were, and
\* ends with n_estimators_ = len(estimators_).
C36_WarmFitOfSameSizeIdempotent ==
    [][/\ WarmFitOfSameSize
          => /\ pc' = "_fit"
             /\ frame'.i = params.n_estimators
             /\ SameEnsemble(self, self')
       /\ (pc = "_fit" /\ pc' = "idle" /\ frame.i = frame.begin_at_stage)
          => /\ last'.err = "ok"
             /\ SameEnsemble(self, self')
             /\ self'.n_estimators_ = Len(self'.estimators_)]_vars

\* ------------------------------------------------ warm-start extensions
\* SpecWarm: SpecLoop with warm_start=True throughout, so that the first
\* fit is the only one that starts from the unfit state, and ensembles of
\* up to MaxWarmEstimators stages.
MaxWarmEstimators == 3

WarmParamValues ==
    [loss          |-> {"coxph"},
     learning_rate |-> {1},
     n_estimators  |-> 1..MaxWarmEstimators,
     subsample     |-> {<<1, 2>>, One},
     warm_start    |-> {TRUE},
     dropout_rate  |-> {Zero, <<1, 2>>}]

InitWarm ==
    /\ Init
    /\ \A name \in ParamNames : params[name] \in WarmParamValues[name]

NextWarm ==
    \/ \E name \in ParamNames : \E v \in WarmParamValues[name] : SetParams(name, v)
    \/ \E d \in LoopDataSets : FitEnter(d)
    \/ FitLoopStage
    \/ FitLoopReturn

SpecWarm == InitWarm /\ [][NextWarm]_vars

\* fit is called with warm_start=True and n_estimators = m on the model a
\* fit with n_estimators = k < m left behind, with the data and the dropout
\* and subsampling settings of that fit
WarmExtension ==
    /\ pc = "idle"
    /\ last'.op \in {"fit", "_fit"}
    /\ params.warm_start
    /\ ParamsValid(params)
    /\ DataValid(last'.X)
    /\ _is_fitted(self)
    /\ AllStagesFitted(self)
    /\ hasattr(self, "n_estimators_")
    /\ self.n_estimators_ = Len(self.estimators_)
    /\ params.n_estimators > Len(self.estimators_)
    /\ RatLess(Zero, params.dropout_rate) <=> hasattr(self, "_scale")
    /\ RatLess(params.subsample, One) <=> hasattr(self, "oob_improvement_")
    /\ self.train_score_[Len(self.estimators_)].y = last'.X

\* the scale vector of a single fit with n_estimators = m before the
\* dropout update of stage k - 1: the entries of the first k stages, then 1
ScaleOfSingleFit ==
    [j \in 1..params.n_estimators |->
        IF j <= Len(self._scale) THEN self._scale[j] ELSE One]

\* C35: a warm-start fit that extends an ensemble of k stages to m > k
\* stages enters stage k in the state a single fit with n_estimators = m has
\* there: the stages fitted so far are kept and predict as they did; without
\* dropout the cumulative prediction recomputed from the stored ensemble is
\* the one the first fit accumulated (the argument of its last training
\* score) and the generator is where that fit left it; with dropout the
\* state is the one that the dropout update of stage k - 1 of the single fit
\* gives.  The extension then ends with m stages and n_estimators_ = m.
C35_WarmStartRefinesSingleFit ==
    [][/\ WarmExtension
          => LET k == Len(self.estimators_)
             IN  /\ pc' = "_fit"
                 /\ frame'.begin_at_stage = k /\ frame'.i = k
                 /\ \A m \in 1..k : /\ self'.estimators_[m] = self.estimators_[m]
                                    /\ StageFn(self', m) = StageFn(self, m)
                 /\ IF RatLess(Zero, params.dropout_rate)
                    THEN \E dr \in FitDraws(params, self) :
                            /\ DropoutUpdate(k - 1, Dropped(dr), ScaleOfSingleFit,
                                             self', frame'.X, frame'.y_pred)
                            /\ self'._rng = self._rng
                                 + _sample_binomial_plus_one(dr).drawn
                    ELSE /\ frame'.y_pred = self.train_score_[k].raw
                         /\ self'._rng = self._rng
       /\ (pc = "_fit" /\ pc' = "idle" /\ frame.begin_at_stage > 0
             /\ frame.i > frame.begin_at_stage)
          => /\ last'.err = "ok"
             /\ Len(self'.estimators_) = params.n_estimators
             /\ self'.n_estimators_ = params.n_estimators]_vars

\* the cases at time t: the test samples with an event at or before t
Cases(c, t) ==
    {k \in 1..Len(c.event_time) : c.event_time[k] <= t /\ c.event_indicator[k]}

ConstantEstimate(c) ==
    \A a, b \in 1..Len(c.estimate) : c.estimate[a] = c.estimate[b]

\* C37: every value of the auc array that cumulative_dynamic_auc returns is
\* a finite number in [0, 1]: every query time it accepts has a case, whose
\* weights sum to a positive number, and an estimate that is constant over
\* the test samples gives 0.5 at every query time.
C37_AucFinite ==
    IsAucResult
    => LET times == np_unique(last.X.times)
       IN  \A k \in 1..Len(times) :
              /\ Cases(last.X, times[k]) # {}
              /\ last.val.auc[k] # NanScore
              /\ ConstantEstimate(last.X) => last.val.auc[k] = HalfScore

====
